---- MODULE Spec2Model ----
(***************************************************************************)
(* A model of upjobs: the de-duplicators and the batch pipeline of cli.py  *)
(* and processing.py, the Sheets push of connectors/sheets.py, the         *)
(* summary fan-out of ai.py and the Sheets pull of cli.py.                 *)
(*                                                                         *)
(* Python values are written as tagged strings: "None", "S:<text>" for a   *)
(* str, "I:<digits>" for an int.  PyTruthy and PyStr are Python's bool()   *)
(* and str() on them.                                                      *)
(***************************************************************************)
EXTENDS Integers, Sequences, FiniteSets, TLC

VARIABLES
  \* ---- the de-duplicators called on their own (cli.py 36-59)
  rows,                  \* the argument list
  jobsOut,               \* what _dedupe_jobs returned
  linksOut,              \* what _dedupe_search_results returned
  dpc,                   \* "in" | "out"
  \* ---- run_all, steps 2 and 3 (cli.py 184-266)
  json_files,            \* the sorted batch files, each [search_id, raw_jobs]
  fileIdx,               \* the file the loop at cli.py:188 is at
  jobs_buffer,
  search_results_buffer,
  handedJobs,            \* the argument of upsert_jobs
  handedLinks,           \* the argument of upsert_search_results
  calls,                 \* the upserts called so far
  epc,                   \* where run_all is, "raised" once it has raised
  scrape_requests,       \* the search_id of each scrape_req, in file order
  reqIdx,                \* the turn of a loop over scrape_requests
  storedScrapes,         \* the search_ids upsert_scrape_request has written
  processed,             \* the search_ids whose processed flag was set
  failedCall,            \* the store call that raised, "" when none did
  job_summaries,         \* the description_summary of each job of jobs_buffer
                         \* once de-duplicated
  \* ---- summarize_jobs (ai.py 57-92)
  jobs,                  \* the jobs argument, mutated in place
  api_key,               \* config.OPENAI_API_KEY is set
  limit,
  concurrency,
  spc,                   \* where summarize_jobs is: "start" | "loop" | "gather" |
                         \* "returned" | "raised"
  loopIdx,               \* the job the loop at ai.py:72 is at
  tasks,                 \* the tasks created, each [job, st, exc]; st is
                         \* "pending" | "waiting" | "inflight" | "done"
  sem,                   \* the semaphore's free slots
  outcomes,              \* how each task's completion call ended, "" before
  jobsAtCall,            \* the records as summarize_jobs was handed them
  \* ---- upsert_rows on one worksheet (connectors/sheets.py 38-118)
  ws,                    \* the worksheet: rows of cells, row 1 the header row
  headers,               \* the headers argument
  records,               \* the rows argument
  key,                   \* the key argument
  batch_size,
  null_skipped,          \* the store skips a null in a range write (keeps the
                         \* cell) rather than clearing the cell
  ppc,                   \* where upsert_rows is: "ensure_headers" | "build" |
                         \* "flush_updates" | "flush_appends" | "done" | "raised"
  updates,               \* the queued (target_row, vals)
  appends,               \* the queued vals
  upos,                  \* how many queued updates have been written
  apos,                  \* how many queued appends have been written
  callNo,                \* 1 for the first call, 2 for its repetition, ...
  wsBefore,              \* the worksheet when the current call began
  sheetCalls,            \* the write calls the current call has made, in
                         \* order, each [call, rows]
  \* ---- sheets_pull, the JobNotes and Applications tabs (cli.py 403-497)
  apps_records,          \* what get_all_records gives for the tab
  applications,          \* the applications table of the store
  history,               \* the application_status_history table of the store
  apps_new,
  apps_update,
  before_status,         \* the captured map str(application_id) -> status
  lpc,                   \* where sheets_pull is: "apps_read" | "apps_insert" |
                         \* "apps_capture" | "apps_update" | "apps_history" |
                         \* "done" | "raised"
  appsAtUpdate,          \* the applications table as update_applications found it
  notes_records,         \* what get_all_records gives for the JobNotes tab
  job_notes,             \* the job_notes table of the store
  notes_new,
  notes_update,
  pullNo,                \* 1 in the first run of sheets_pull, 2 in the second
  storeBefore,           \* the job_notes, applications and history tables
                         \* when the current run began
  \* ---- one call of a function of its argument alone
  fnName,                \* "coerce_bool" | "parse_filename_metadata" |
                         \* "process_json_file" (on two files in turn)
  fnArg,
  fnRet,
  fnpc,                  \* "call" | "returned" | "raised"
  \* ---- sheets_push, the Jobs tab (cli.py 311-351); the worksheet is ws
  \* and the applications table is applications
  hide_terminal,
  jobsTable              \* the jobs table of the store

dedupeVars == <<rows, jobsOut, linksOut, dpc>>
etlVars == <<json_files, fileIdx, jobs_buffer, search_results_buffer,
             handedJobs, handedLinks, calls, epc,
             scrape_requests, reqIdx, storedScrapes, processed, failedCall,
             job_summaries>>
sumVars == <<jobs, api_key, limit, concurrency, spc, loopIdx, tasks, sem, outcomes,
             jobsAtCall>>
pushVars == <<ws, headers, records, key, batch_size, null_skipped, ppc,
              updates, appends, upos, apos, callNo, wsBefore, sheetCalls>>

notesVars == <<notes_records, job_notes, notes_new, notes_update>>

pullVars == <<apps_records, applications, history, apps_new, apps_update,
              before_status, lpc, appsAtUpdate, notesVars, pullNo, storeBefore>>

fnVars == <<fnName, fnArg, fnRet, fnpc>>

hideVars == <<hide_terminal, jobsTable>>

vars == <<dedupeVars, etlVars, sumVars, pushVars, pullVars, fnVars, hideVars>>

\* What each part leaves alone.
notDedupe == <<etlVars, sumVars, pushVars, pullVars, fnVars, hideVars>>
notEtl == <<dedupeVars, sumVars, pushVars, pullVars, fnVars, hideVars>>
notSum == <<dedupeVars, etlVars, pushVars, pullVars, fnVars, hideVars>>
notPush == <<dedupeVars, etlVars, sumVars, pullVars, fnVars, hideVars>>
notPull == <<dedupeVars, etlVars, sumVars, pushVars, fnVars, hideVars>>
notFn == <<dedupeVars, etlVars, sumVars, pushVars, pullVars, hideVars>>

----------------------------------------------------------------------------
(* Python values *)

PyNone == "None"

\* bool(v): None, '', 0, 0.0, False and [] are false.
PyTruthy(v) == v \notin {"None", "S:", "I:0", "F:0.0", "B:False", "L:[]"}

\* str(v)
PyStr(v) ==
  CASE v = "None" -> "S:None"
    [] v = "I:0"  -> "S:0"
    [] v = "I:1"  -> "S:1"
    [] v = "I:2"  -> "S:2"
    [] v = "I:3"  -> "S:3"
    [] v = "I:4"  -> "S:4"
    [] v = "I:5"  -> "S:5"
    [] v = "I:6"  -> "S:6"
    [] OTHER      -> v

\* a or b
PyOr(a, b) == IF PyTruthy(a) THEN a ELSE b

SeqToSet(s) == {s[i] : i \in DOMAIN s}

\* All sequences over S of length at most n.
SeqsUpTo(S, n) == UNION {[1..k -> S] : k \in 0..n}

----------------------------------------------------------------------------
(* cli.py 36-59: the two de-duplicators *)

\* by_id[k] = r on an insertion-ordered dict held as a sequence of entries.
DictSet(d, k, r) ==
  IF \E i \in DOMAIN d : d[i].k = k
    THEN [i \in DOMAIN d |-> IF d[i].k = k THEN [k |-> k, r |-> r] ELSE d[i]]
    ELSE Append(d, [k |-> k, r |-> r])

DictValues(d) == [i \in DOMAIN d |-> d[i].r]

RECURSIVE DedupeJobsLoop(_, _, _)
DedupeJobsLoop(rs, i, by_id) ==
  IF i > Len(rs) THEN by_id
  ELSE LET jid == rs[i].job_id IN
       IF ~PyTruthy(jid)
         THEN DedupeJobsLoop(rs, i + 1, by_id)
         ELSE DedupeJobsLoop(rs, i + 1, DictSet(by_id, PyStr(jid), rs[i]))

\* A de-duplicator that keeps the first record of a key.
DedupeJobsKeepFirst(rs) ==
  LET RECURSIVE Go(_, _)
      Go(i, by_id) ==
        IF i > Len(rs) THEN by_id
        ELSE IF ~PyTruthy(rs[i].job_id)
               \/ \E n \in DOMAIN by_id : by_id[n].k = PyStr(rs[i].job_id)
          THEN Go(i + 1, by_id)
          ELSE Go(i + 1, Append(by_id, [k |-> PyStr(rs[i].job_id), r |-> rs[i]]))
  IN DictValues(Go(1, <<>>))

dedupe_jobs(rs) == DictValues(DedupeJobsLoop(rs, 1, <<>>))

LinkKey(r) == <<PyStr(r.search_id), PyStr(r.job_id)>>

RECURSIVE DedupeSearchResultsLoop(_, _, _, _)
DedupeSearchResultsLoop(rs, i, seen, unique) ==
  IF i > Len(rs) THEN unique
  ELSE IF ~PyTruthy(rs[i].search_id) \/ ~PyTruthy(rs[i].job_id)
    THEN DedupeSearchResultsLoop(rs, i + 1, seen, unique)
  ELSE IF LinkKey(rs[i]) \in seen
    THEN DedupeSearchResultsLoop(rs, i + 1, seen, unique)
  ELSE DedupeSearchResultsLoop(rs, i + 1, seen \cup {LinkKey(rs[i])},
                               Append(unique, rs[i]))

\* A composite-key de-duplicator that overwrites: the last record of a key stays.
DedupeSearchResultsKeepLast(rs) ==
  LET RECURSIVE Go(_, _)
      Go(i, d) ==
        IF i > Len(rs) THEN d
        ELSE IF ~PyTruthy(rs[i].search_id) \/ ~PyTruthy(rs[i].job_id)
          THEN Go(i + 1, d)
          ELSE Go(i + 1, DictSet(d, LinkKey(rs[i]), rs[i]))
  IN DictValues(Go(1, <<>>))

\* A composite-key filter that forgets to skip the keys already seen.
DedupeSearchResultsKeepAll(rs) ==
  SelectSeq(rs, LAMBDA r : PyTruthy(r.search_id) /\ PyTruthy(r.job_id))

dedupe_search_results(rs) == DedupeSearchResultsLoop(rs, 1, {}, <<>>)

----------------------------------------------------------------------------
(* processing.py 18-128: flatten_record, the fields the pipeline reads *)

\* strip_html at processing.py:19-20: re.sub(r"<.*?>", "", text) on a str.
strip_html(text) ==
  CASE text = "S:<i>b"    -> "S:b"
    [] text = "S:<b>a</b>" -> "S:a"
    [] OTHER               -> text

\* after_last_dot at processing.py:22-23.
after_last_dot(v) ==
  CASE v = "S:Tier.T1" -> "S:T1"
    [] v = "S:a.b.T2"  -> "S:T2"
    [] OTHER            -> v

\* processing.py:72-77: client = record.get("client") or {} and then
\* client.get(...): a truthy non-map client has no .get and raises.
FlattenRaises(record) == PyTruthy(record.client) /\ record.client # "dict"

flatten_record(record) ==
  LET job_id == PyOr(PyOr(record.uid, record.jobId), record.id) IN
  [ job_id         |-> IF job_id # PyNone THEN PyStr(job_id) ELSE PyNone,
    description    |-> strip_html(record.description),
    proposals_tier |-> after_last_dot(record.proposalsTier) ]

----------------------------------------------------------------------------
(* processing.py 174-216: process_json_file *)

\* processing.py:187-195, the loop over flattened: the first record of a
\* job_id is kept.
RECURSIVE UniqueJobsLoop(_, _, _, _)
UniqueJobsLoop(flattened, i, seen, unique_jobs) ==
  IF i > Len(flattened) THEN unique_jobs
  ELSE LET jid == flattened[i].job_id IN
       IF ~PyTruthy(jid) \/ jid \in seen
         THEN UniqueJobsLoop(flattened, i + 1, seen, unique_jobs)
         ELSE UniqueJobsLoop(flattened, i + 1, seen \cup {jid},
                             Append(unique_jobs, flattened[i]))

unique_jobs_of(flattened) == UniqueJobsLoop(flattened, 1, {}, <<>>)

\* processing.py:197-206
search_results_rows_of(meta_search_id, unique_jobs) ==
  LET kept == SelectSeq(unique_jobs, LAMBDA j : PyTruthy(j.job_id)) IN
  [i \in DOMAIN kept |->
     [ search_id      |-> meta_search_id,
       job_id         |-> kept[i].job_id,
       proposals_tier |-> kept[i].proposals_tier ]]

ProcessRaises(file) == \E i \in DOMAIN file.raw_jobs : FlattenRaises(file.raw_jobs[i])

\* (jobs_rows, search_results_rows) of a file whose records all flatten.
process_json_file(file) ==
  LET flattened == [i \in DOMAIN file.raw_jobs |-> flatten_record(file.raw_jobs[i])]
      unique_jobs == unique_jobs_of(flattened)
  IN [ jobs_rows |-> unique_jobs,
       sr_rows   |-> search_results_rows_of(file.search_id, unique_jobs) ]

----------------------------------------------------------------------------
(* The de-duplicators on arbitrary argument lists *)

MaxRows == 3

RowSearchIds == {"None", "I:1", "S:1"}
RowJobIds == {"S:", "I:1", "S:1", "S:2"}
RowTags == {"d1", "d2"}

\* A row as both de-duplicators read it; tag stands for its other fields.
RowSet == [search_id : RowSearchIds, job_id : RowJobIds, tag : RowTags]

DedupeIdle ==
  /\ rows = <<>>
  /\ jobsOut = <<>>
  /\ linksOut = <<>>
  /\ dpc = "idle"

DedupeInit ==
  /\ rows \in SeqsUpTo(RowSet, MaxRows)
  /\ jobsOut = <<>>
  /\ linksOut = <<>>
  /\ dpc = "in"

EtlIdle ==
  /\ json_files = <<>>
  /\ fileIdx = 0
  /\ jobs_buffer = <<>>
  /\ search_results_buffer = <<>>
  /\ handedJobs = <<>>
  /\ handedLinks = <<>>
  /\ calls = {}
  /\ epc = "idle"
  /\ scrape_requests = <<>>
  /\ reqIdx = 0
  /\ storedScrapes = {}
  /\ processed = {}
  /\ failedCall = ""
  /\ job_summaries = <<>>

SumIdle ==
  /\ jobs = <<>>
  /\ api_key = FALSE
  /\ limit = 0
  /\ concurrency = 0
  /\ spc = "idle"
  /\ loopIdx = 0
  /\ tasks = <<>>
  /\ sem = 0
  /\ outcomes = <<>>
  /\ jobsAtCall = jobs

PushIdle ==
  /\ ws = <<>>
  /\ headers = <<>>
  /\ records = <<>>
  /\ key = ""
  /\ batch_size = 0
  /\ null_skipped = FALSE
  /\ ppc = "idle"
  /\ updates = <<>>
  /\ appends = <<>>
  /\ upos = 0
  /\ apos = 0
  /\ callNo = 0
  /\ wsBefore = <<>>
  /\ sheetCalls = <<>>

PullIdle ==
  /\ apps_records = <<>>
  /\ applications = <<>>
  /\ history = <<>>
  /\ apps_new = <<>>
  /\ apps_update = <<>>
  /\ before_status = <<>>
  /\ lpc = "idle"
  /\ appsAtUpdate = <<>>
  /\ notes_records = <<>>
  /\ job_notes = <<>>
  /\ notes_new = <<>>
  /\ notes_update = <<>>
  /\ pullNo = 0
  /\ storeBefore = <<>>

FnIdle ==
  /\ fnName = ""
  /\ fnArg = ""
  /\ fnRet = ""
  /\ fnpc = "idle"

HideIdle ==
  /\ hide_terminal = FALSE
  /\ jobsTable = <<>>

CallDedupe ==
  /\ dpc = "in"
  /\ jobsOut' = dedupe_jobs(rows)
  /\ linksOut' = dedupe_search_results(rows)
  /\ dpc' = "out"
  /\ UNCHANGED <<rows, notDedupe>>

InitDedupe == EtlIdle /\ SumIdle /\ PushIdle /\ PullIdle /\ FnIdle /\ HideIdle /\ DedupeInit

SpecDedupe == InitDedupe /\ [][CallDedupe]_vars

----------------------------------------------------------------------------
(* cli.py 184-266: run_all from the loop over the batch files to the upserts *)

MaxPayloads == 2

\* Raw scraped records: two with uid '1' and different descriptions, one that
\* takes its identity from jobId, one without identity, one whose client is a
\* str.
RawPayloads ==
  { [uid |-> "S:1", jobId |-> "None", id |-> "None", description |-> "S:<b>a</b>",
     proposalsTier |-> "S:Tier.T1", client |-> "dict"],
    [uid |-> "S:1", jobId |-> "None", id |-> "I:2", description |-> "S:<i>b",
     proposalsTier |-> "S:a.b.T2", client |-> "None"],
    [uid |-> "S:", jobId |-> "S:2", id |-> "None", description |-> "S:c",
     proposalsTier |-> "None", client |-> "dict"],
    [uid |-> "None", jobId |-> "None", id |-> "None", description |-> "S:c",
     proposalsTier |-> "S:T1", client |-> "None"],
    [uid |-> "S:2", jobId |-> "None", id |-> "None", description |-> "S:c",
     proposalsTier |-> "S:T1", client |-> "S:x"] }

\* The search_id parse_filename_metadata gives a file (processing.py:181).
FileSearchIds == {"S:A", "S:B"}

\* The jobs table of the store before the run: job 1 with a summary, job 2
\* without.
StoredJobs ==
  << [job_id |-> "S:1", description_summary |-> "S:old"],
     [job_id |-> "S:2", description_summary |-> PyNone] >>

\* cli.py:231-235
id_to_summary(existing) ==
  [k \in {existing[n].job_id :
            n \in {m \in DOMAIN existing : PyTruthy(existing[m].description_summary)}} |->
     LET last == CHOOSE n \in DOMAIN existing :
                   /\ existing[n].job_id = k
                   /\ \A m \in DOMAIN existing : existing[m].job_id = k => m <= n
     IN existing[last].description_summary]

\* The names config.py defines for the summary step (config.py:42-46).
ConfigNames == {"AI_PROVIDER", "AI_MODEL", "OPENAI_API_KEY", "ANTHROPIC_API_KEY"}

\* Two batch files; the first is the earlier in sorted(glob("*.json")).
EtlInit ==
  /\ json_files \in
       { <<[search_id |-> "S:A", raw_jobs |-> a], [search_id |-> sid, raw_jobs |-> b]>> :
           a \in SeqsUpTo(RawPayloads, MaxPayloads),
           b \in SeqsUpTo(RawPayloads, MaxPayloads),
           sid \in FileSearchIds }
  /\ fileIdx = 1
  /\ jobs_buffer = <<>>
  /\ search_results_buffer = <<>>
  /\ handedJobs = <<>>
  /\ handedLinks = <<>>
  /\ calls = {}
  /\ epc = "process"
  /\ scrape_requests = <<>>
  /\ reqIdx = 0
  /\ storedScrapes = {}
  /\ processed = {}
  /\ failedCall = ""
  /\ job_summaries = <<>>

\* cli.py:188-192, one turn of the loop; a record that does not flatten
\* raises out of run_all.
ProcessJsonFile ==
  /\ epc = "process"
  /\ fileIdx <= Len(json_files)
  /\ IF ProcessRaises(json_files[fileIdx])
       THEN /\ epc' = "raised"
            /\ UNCHANGED <<fileIdx, jobs_buffer, search_results_buffer, scrape_requests>>
       ELSE LET got == process_json_file(json_files[fileIdx]) IN
            /\ jobs_buffer' = jobs_buffer \o got.jobs_rows
            /\ search_results_buffer' = search_results_buffer \o got.sr_rows
            /\ scrape_requests' = Append(scrape_requests, json_files[fileIdx].search_id)
            /\ fileIdx' = fileIdx + 1
            /\ epc' = IF fileIdx = Len(json_files) THEN "dedupe" ELSE "process"
  /\ UNCHANGED <<json_files, handedJobs, handedLinks, calls, reqIdx, storedScrapes,
                 processed, failedCall, job_summaries, notEtl>>

\* cli.py:196-197
DedupeBuffers ==
  /\ epc = "dedupe"
  /\ jobs_buffer' = dedupe_jobs(jobs_buffer)
  /\ search_results_buffer' = dedupe_search_results(search_results_buffer)
  /\ job_summaries' = [i \in DOMAIN dedupe_jobs(jobs_buffer) |-> PyNone]
  /\ epc' = "preload"
  /\ reqIdx' = 1
  /\ UNCHANGED <<json_files, fileIdx, handedJobs, handedLinks, calls, scrape_requests,
                 storedScrapes, processed, failedCall, notEtl>>

\* cli.py:220-241: the stored summaries of the jobs of the buffer are read
\* and put on the jobs; a query that raises is passed over.
PreloadSummaries ==
  /\ epc = "preload"
  /\ IF \A i \in DOMAIN jobs_buffer : ~PyTruthy(jobs_buffer[i].job_id)
       THEN UNCHANGED job_summaries
       ELSE \/ job_summaries' =
                 [i \in DOMAIN job_summaries |->
                    IF jobs_buffer[i].job_id \in DOMAIN id_to_summary(StoredJobs)
                      THEN id_to_summary(StoredJobs)[jobs_buffer[i].job_id]
                      ELSE job_summaries[i]]
            \/ UNCHANGED job_summaries
  /\ epc' = "summarize"
  /\ UNCHANGED <<json_files, fileIdx, jobs_buffer, search_results_buffer, handedJobs,
                 handedLinks, calls, scrape_requests, reqIdx, storedScrapes, processed,
                 failedCall, notEtl>>

\* cli.py:243-254: the arguments of summarize_jobs are read from config; a
\* name config does not define raises AttributeError before summarize_jobs is
\* called, and the summary step is skipped.
SummarizeStep ==
  /\ epc = "summarize"
  /\ IF {"AI_SUMMARY_MAX_WORDS", "AI_MODEL", "AI_SUMMARIZE_LIMIT", "AI_CONCURRENCY"}
          \subseteq ConfigNames
       THEN calls' = calls \cup {"summarize_jobs"}
       ELSE UNCHANGED calls
  /\ epc' = "upsert_scrape_request"
  /\ UNCHANGED <<json_files, fileIdx, jobs_buffer, search_results_buffer, handedJobs,
                 handedLinks, scrape_requests, reqIdx, storedScrapes, processed,
                 failedCall, job_summaries, notEtl>>

\* cli.py:256-257, one turn of the loop
UpsertScrapeRequest ==
  /\ epc = "upsert_scrape_request"
  /\ storedScrapes' = storedScrapes \cup {scrape_requests[reqIdx]}
  /\ reqIdx' = reqIdx + 1
  /\ epc' = IF reqIdx = Len(scrape_requests) THEN "upsert_jobs" ELSE "upsert_scrape_request"
  /\ UNCHANGED <<json_files, fileIdx, jobs_buffer, search_results_buffer, handedJobs,
                 handedLinks, calls, scrape_requests, processed, failedCall, job_summaries, notEtl>>

\* cli.py:258-259
UpsertJobs ==
  /\ epc = "upsert_jobs"
  /\ IF jobs_buffer # <<>>
       THEN handedJobs' = jobs_buffer /\ calls' = calls \cup {"upsert_jobs"}
       ELSE UNCHANGED <<handedJobs, calls>>
  /\ epc' = "upsert_search_results"
  /\ UNCHANGED <<json_files, fileIdx, jobs_buffer, search_results_buffer,
                 handedLinks, scrape_requests, reqIdx, storedScrapes, processed,
                 failedCall, job_summaries, notEtl>>

\* cli.py:260-261
UpsertSearchResults ==
  /\ epc = "upsert_search_results"
  /\ IF search_results_buffer # <<>>
       THEN /\ handedLinks' = search_results_buffer
            /\ calls' = calls \cup {"upsert_search_results"}
       ELSE UNCHANGED <<handedLinks, calls>>
  /\ epc' = "update_scrape_processed"
  /\ reqIdx' = 1
  /\ UNCHANGED <<json_files, fileIdx, jobs_buffer, search_results_buffer,
                 handedJobs, scrape_requests, storedScrapes, processed,
                 failedCall, job_summaries, notEtl>>

\* cli.py:262-265, one turn of the loop
UpdateScrapeProcessed ==
  /\ epc = "update_scrape_processed"
  /\ processed' = IF PyTruthy(scrape_requests[reqIdx])
                    THEN processed \cup {scrape_requests[reqIdx]}
                    ELSE processed
  /\ reqIdx' = reqIdx + 1
  /\ epc' = IF reqIdx = Len(scrape_requests) THEN "done" ELSE "update_scrape_processed"
  /\ UNCHANGED <<json_files, fileIdx, jobs_buffer, search_results_buffer, handedJobs,
                 handedLinks, calls, scrape_requests, storedScrapes, failedCall, job_summaries, notEtl>>

\* A failing store write that is caught, run_all going on to set the flags.
StoreWriteFailsIsSwallowed ==
  /\ \/ epc = "upsert_scrape_request"
     \/ epc = "upsert_jobs" /\ jobs_buffer # <<>>
     \/ epc = "upsert_search_results" /\ search_results_buffer # <<>>
  /\ failedCall' = epc
  /\ epc' = "update_scrape_processed"
  /\ reqIdx' = 1
  /\ UNCHANGED <<json_files, fileIdx, jobs_buffer, search_results_buffer, handedJobs,
                 handedLinks, calls, scrape_requests, storedScrapes, processed, job_summaries, notEtl>>

\* The store call run_all is about to make raises; nothing catches it
\* (upsert_jobs and upsert_search_results are only called on a non-empty
\* buffer).
StoreWriteFails ==
  /\ \/ epc \in {"upsert_scrape_request", "update_scrape_processed"}
     \/ epc = "upsert_jobs" /\ jobs_buffer # <<>>
     \/ epc = "upsert_search_results" /\ search_results_buffer # <<>>
  /\ failedCall' = epc
  /\ epc' = "raised"
  /\ UNCHANGED <<json_files, fileIdx, jobs_buffer, search_results_buffer, handedJobs,
                 handedLinks, calls, scrape_requests, reqIdx, storedScrapes,
                 processed, job_summaries, notEtl>>

InitEtl == DedupeIdle /\ SumIdle /\ PushIdle /\ PullIdle /\ FnIdle /\ HideIdle /\ EtlInit

NextEtl ==
  \/ ProcessJsonFile
  \/ DedupeBuffers
  \/ PreloadSummaries
  \/ SummarizeStep
  \/ UpsertScrapeRequest
  \/ UpsertJobs
  \/ UpsertSearchResults
  \/ UpdateScrapeProcessed
  \/ StoreWriteFails

SpecEtl == InitEtl /\ [][NextEtl]_vars

----------------------------------------------------------------------------
(* Claims on the de-duplicators *)

\* The rows of rs that carry a (truthy) job_id whose str() is k.
JobKeyAt(rs, k) == {i \in DOMAIN rs : PyTruthy(rs[i].job_id) /\ PyStr(rs[i].job_id) = k}
JobKeys(rs) == {PyStr(rs[i].job_id) : i \in {n \in DOMAIN rs : PyTruthy(rs[n].job_id)}}

\* The rows of rs that carry both keys, as the composite key c.
LinkKeyAt(rs, c) ==
  {i \in DOMAIN rs : PyTruthy(rs[i].search_id) /\ PyTruthy(rs[i].job_id) /\ LinkKey(rs[i]) = c}
LinkKeys(rs) == {LinkKey(rs[i]) : i \in {n \in DOMAIN rs :
                   PyTruthy(rs[n].search_id) /\ PyTruthy(rs[n].job_id)}}

SetMax(S) == CHOOSE m \in S : \A n \in S : n <= m
SetMin(S) == CHOOSE m \in S : \A n \in S : m <= n

\* C2: for every argument list, _dedupe_jobs returns exactly one record per
\* distinct str(job_id) of the rows that carry a job_id, and that record is the
\* last row carrying that key; rows without a job_id are dropped.
C2_DedupeJobsLastWins ==
  dpc = "out" =>
    /\ Len(jobsOut) = Cardinality(JobKeys(rows))
    /\ \A i \in DOMAIN jobsOut : PyTruthy(jobsOut[i].job_id)
    /\ \A k \in JobKeys(rows) :
         /\ Cardinality(JobKeyAt(jobsOut, k)) = 1
         /\ \A i \in JobKeyAt(jobsOut, k) : jobsOut[i] = rows[SetMax(JobKeyAt(rows, k))]

\* A call whose argument repeats a key (once as int 1, once as '1') on
\* different records, beside a row without a job_id.
C2_Witness ==
  /\ dpc = "out"
  /\ \E i, j \in DOMAIN rows :
       /\ i < j
       /\ rows[i].job_id = "I:1" /\ rows[j].job_id = "S:1"
       /\ rows[i].tag # rows[j].tag
  /\ \E i \in DOMAIN rows : ~PyTruthy(rows[i].job_id)
  /\ Len(jobsOut) = 1

----------------------------------------------------------------------------
(* Claims on the batch pipeline *)

\* The places <<file, index>> of the raw payloads whose job_id flattens to k.
PayloadsOf(k) ==
  {o \in UNION {{<<f, i>> : i \in DOMAIN json_files[f].raw_jobs} : f \in DOMAIN json_files} :
     flatten_record(json_files[o[1]].raw_jobs[o[2]]).job_id = k}

PayloadKeys ==
  {k \in {flatten_record(p).job_id : p \in RawPayloads} :
     PyTruthy(k) /\ PayloadsOf(k) # {}}

FlatAt(o) == flatten_record(json_files[o[1]].raw_jobs[o[2]])

\* The payload of k that comes last: in the last file, and last in that file.
LastPayloadOf(k) ==
  CHOOSE o \in PayloadsOf(k) :
    \A q \in PayloadsOf(k) : q[1] < o[1] \/ (q[1] = o[1] /\ q[2] <= o[2])

\* The payload of k that comes first in the last file carrying k.
FirstInLastFileOf(k) ==
  CHOOSE o \in PayloadsOf(k) :
    \A q \in PayloadsOf(k) : q[1] < o[1] \/ (q[1] = o[1] /\ q[2] >= o[2])

Deduped == epc \in {"preload", "summarize", "upsert_scrape_request", "upsert_jobs", "upsert_search_results",
                    "update_scrape_processed", "done"}

C5_HandedKeysUnique ==
  /\ "upsert_jobs" \in calls =>
       /\ \A i \in DOMAIN handedJobs : PyTruthy(handedJobs[i].job_id)
       /\ \A i, j \in DOMAIN handedJobs :
            handedJobs[i].job_id = handedJobs[j].job_id => i = j
  /\ "upsert_search_results" \in calls =>
       /\ \A i \in DOMAIN handedLinks :
            PyTruthy(handedLinks[i].search_id) /\ PyTruthy(handedLinks[i].job_id)
       /\ \A i, j \in DOMAIN handedLinks :
            ( /\ handedLinks[i].search_id = handedLinks[j].search_id
              /\ handedLinks[i].job_id = handedLinks[j].job_id ) => i = j

\* Both upserts are called on a run whose two files share their search_id and
\* a job, beside a payload without identity.
C5_Witness ==
  /\ epc = "done"
  /\ calls = {"upsert_jobs", "upsert_search_results"}
  /\ json_files[2].search_id = json_files[1].search_id
  /\ \E i \in DOMAIN json_files[1].raw_jobs, j \in DOMAIN json_files[2].raw_jobs :
       /\ json_files[1].raw_jobs[i].uid = "S:1"
       /\ json_files[2].raw_jobs[j].uid = "S:1"
  /\ \E i \in DOMAIN json_files[1].raw_jobs :
       flatten_record(json_files[1].raw_jobs[i]).job_id = PyNone
  /\ Len(handedJobs) = 1
  /\ Len(handedLinks) = 1

----------------------------------------------------------------------------
(* ai.py 35-92: _summarize_one and summarize_jobs *)

MaxJobs == 3
MaxLimit == 2
MaxConcurrency == 2

\* The model argument (config.AI_MODEL).
AiModel == "S:gpt-4o-mini"

\* How a completion call can end: a text with usage, a text without usage, an
\* empty text, an error response, a timeout.
CallOutcomes == {"text", "text_no_usage", "empty", "error", "timeout"}

\* _summarize_one, ai.py:35-54: (text, total_tokens) of a call that ended as
\* outcome; every exception is caught and gives (None, 0).
summarize_one(outcome) ==
  CASE outcome = "text"          -> [raised |-> FALSE, text |-> "S:sum", used |-> "I:7"]
    [] outcome = "text_no_usage" -> [raised |-> FALSE, text |-> "S:sum", used |-> "I:0"]
    [] outcome = "empty"         -> [raised |-> FALSE, text |-> "S:",    used |-> "I:7"]
    [] OTHER                     -> [raised |-> FALSE, text |-> PyNone,  used |-> "I:0"]

\* A selection that does not look at the description.
QualifiesWithoutSummary(job) == ~PyTruthy(job.description_summary)

\* ai.py:75: the record lacks a summary and has a description.
Qualifies(job) == ~(PyTruthy(job.description_summary) \/ ~PyTruthy(job.description))

\* A write that records the model before it looks at the text.
WriteSummaryModelFirst(job, result) ==
  IF ~result.raised /\ PyTruthy(result.text)
    THEN [job EXCEPT !.description_summary = result.text,
                     !.description_summary_model = AiModel,
                     !.description_summary_tokens = result.used]
    ELSE [job EXCEPT !.description_summary_model = AiModel]

\* ai.py:83-86
WriteSummary(job, result) ==
  IF ~result.raised /\ PyTruthy(result.text)
    THEN [job EXCEPT !.description_summary = result.text,
                     !.description_summary_model = AiModel,
                     !.description_summary_tokens = result.used]
    ELSE job

\* asyncio.Semaphore: `async with sem` at ai.py:81 enters when a slot is free,
\* takes it, and gives it back when the block is left, however it is left.
\* A gate that never closes.
SemNeverLocked(s) == FALSE

sem_locked(s) == s = 0

\* A slot taken without being counted.
SemAcquireNoCount(s) == s

sem_acquire(s) == s - 1

\* A slot given back only by a call that produced a text.
SemReleaseOnSuccess(s, result) == IF PyTruthy(result.text) THEN s + 1 ELSE s

sem_release(s, result) == s + 1

\* ai.py:92: gather(*tasks, return_exceptions=True) is done when every task is,
\* and hands a task's exception back as a value.
\* A gather that is done as soon as one task is.
GatherDoneOnFirst(ts) == \E t \in DOMAIN ts : ts[t].st = "done"

gather_done(ts) == \A t \in DOMAIN ts : ts[t].st = "done"

gather_raises(ts) == FALSE

JobKinds ==
  { [description_summary |-> PyNone, description |-> "S:d",
     description_summary_model |-> PyNone, description_summary_tokens |-> PyNone],
    [description_summary |-> "S:old", description |-> "S:d",
     description_summary_model |-> "S:m0", description_summary_tokens |-> "I:3"],
    [description_summary |-> PyNone, description |-> "S:",
     description_summary_model |-> PyNone, description_summary_tokens |-> PyNone],
    [description_summary |-> "S:", description |-> "S:d",
     description_summary_model |-> "S:m0", description_summary_tokens |-> "I:3"] }

SumInit ==
  /\ jobs \in SeqsUpTo(JobKinds, MaxJobs)
  /\ api_key \in BOOLEAN
  /\ limit \in 0..MaxLimit
  /\ concurrency \in 1..MaxConcurrency
  /\ spc = "start"
  /\ loopIdx = 1
  /\ tasks = <<>>
  /\ sem = 0
  /\ outcomes = <<>>
  /\ jobsAtCall = jobs

\* summarize_jobs going on without a key.
SumStartIgnoresKey ==
  /\ spc = "start"
  /\ spc' = "loop"
  /\ sem' = concurrency
  /\ UNCHANGED <<jobs, api_key, limit, concurrency, loopIdx, tasks, outcomes, jobsAtCall, notSum>>

\* ai.py:65-71
SumStart ==
  /\ spc = "start"
  /\ IF ~api_key
       THEN spc' = "returned" /\ UNCHANGED sem
       ELSE spc' = "loop" /\ sem' = concurrency
  /\ UNCHANGED <<jobs, api_key, limit, concurrency, loopIdx, tasks, outcomes, jobsAtCall, notSum>>

\* ai.py:72-89, one turn of the loop; nothing is awaited in it, so no task
\* runs before the loop is over.  count is Len(tasks).
SumLoop ==
  /\ spc = "loop"
  /\ IF loopIdx > Len(jobs) \/ Len(tasks) >= limit
       THEN \* ai.py:91-92
            /\ spc' = IF tasks # <<>> THEN "gather" ELSE "returned"
            /\ UNCHANGED <<loopIdx, tasks, outcomes>>
       ELSE /\ loopIdx' = loopIdx + 1
            /\ spc' = "loop"
            /\ IF Qualifies(jobs[loopIdx])
                 THEN /\ tasks' = Append(tasks, [job |-> loopIdx, st |-> "pending",
                                                 exc |-> FALSE])
                      /\ outcomes' = Append(outcomes, "")
                 ELSE UNCHANGED <<tasks, outcomes>>
  /\ UNCHANGED <<jobs, api_key, limit, concurrency, sem, jobsAtCall, notSum>>

\* run, ai.py:80-81: a task starts and reaches `async with sem`.
TaskStart(t) ==
  /\ spc = "gather"
  /\ t \in DOMAIN tasks
  /\ tasks[t].st = "pending"
  /\ IF sem_locked(sem)
       THEN tasks' = [tasks EXCEPT ![t].st = "waiting"] /\ UNCHANGED sem
       ELSE tasks' = [tasks EXCEPT ![t].st = "inflight"] /\ sem' = sem_acquire(sem)
  /\ UNCHANGED <<jobs, api_key, limit, concurrency, spc, loopIdx, outcomes, jobsAtCall, notSum>>

\* A waiting task is woken once a slot is free and issues its call.
TaskAcquire(t) ==
  /\ spc = "gather"
  /\ t \in DOMAIN tasks
  /\ tasks[t].st = "waiting"
  /\ ~sem_locked(sem)
  /\ tasks' = [tasks EXCEPT ![t].st = "inflight"]
  /\ sem' = sem_acquire(sem)
  /\ UNCHANGED <<jobs, api_key, limit, concurrency, spc, loopIdx, outcomes, jobsAtCall, notSum>>

\* Tasks that all write the record the loop variable was last bound to.
TaskResolveLastBound(t) ==
  /\ t \in DOMAIN tasks
  /\ tasks[t].st = "inflight"
  /\ \E outcome \in CallOutcomes :
       LET result == summarize_one(outcome)
           last   == tasks[Len(tasks)].job IN
       /\ jobs' = [jobs EXCEPT ![last] = WriteSummary(jobs[last], result)]
       /\ tasks' = [tasks EXCEPT ![t].st = "done", ![t].exc = result.raised]
       /\ sem' = sem_release(sem, result)
       /\ outcomes' = [outcomes EXCEPT ![t] = outcome]
  /\ UNCHANGED <<api_key, limit, concurrency, spc, loopIdx, jobsAtCall, notSum>>

\* ai.py:82-86: the call of task t ends, the record is written, the slot is
\* given back and the task is done.
TaskResolve(t) ==
  /\ t \in DOMAIN tasks
  /\ tasks[t].st = "inflight"
  /\ \E outcome \in CallOutcomes :
       LET result == summarize_one(outcome) IN
       /\ jobs' = [jobs EXCEPT ![tasks[t].job] = WriteSummary(jobs[tasks[t].job], result)]
       /\ tasks' = [tasks EXCEPT ![t].st = "done", ![t].exc = result.raised]
       /\ sem' = sem_release(sem, result)
       /\ outcomes' = [outcomes EXCEPT ![t] = outcome]
  /\ UNCHANGED <<api_key, limit, concurrency, spc, loopIdx, jobsAtCall, notSum>>

\* ai.py:92: gather returns and summarize_jobs with it.
SumReturn ==
  /\ spc = "gather"
  /\ gather_done(tasks)
  /\ spc' = IF gather_raises(tasks) THEN "raised" ELSE "returned"
  /\ UNCHANGED <<jobs, api_key, limit, concurrency, loopIdx, tasks, sem, outcomes, jobsAtCall, notSum>>

InitSum == DedupeIdle /\ EtlIdle /\ PushIdle /\ PullIdle /\ FnIdle /\ HideIdle /\ SumInit

TaskIds == 1..MaxJobs

NextSum ==
  \/ SumStart
  \/ SumLoop
  \/ \E t \in TaskIds : TaskStart(t)
  \/ \E t \in TaskIds : TaskAcquire(t)
  \/ \E t \in TaskIds : TaskResolve(t)
  \/ SumReturn

SpecSum == InitSum /\ [][NextSum]_vars

\* The event loop runs every task that can run and summarize_jobs itself, and
\* every completion call issued ends (the client bounds each call's time).
FairSum ==
  /\ WF_vars(SumStart)
  /\ WF_vars(SumLoop)
  /\ WF_vars(SumReturn)
  /\ \A t \in TaskIds : WF_vars(TaskStart(t))
  /\ \A t \in TaskIds : WF_vars(TaskAcquire(t))
  /\ \A t \in TaskIds : WF_vars(TaskResolve(t))

SpecSumFair == InitSum /\ [][NextSum]_vars /\ FairSum

----------------------------------------------------------------------------
(* Claims on summarize_jobs *)

InFlight == {t \in DOMAIN tasks : tasks[t].st = "inflight"}

FailedOutcomes == {"empty", "error", "timeout"}

\* A call was issued for task t and has ended.
Resolved(t) == outcomes[t] # ""

AnyCallFailed == \E t \in DOMAIN outcomes : outcomes[t] \in FailedOutcomes
AllCallsResolved == \A t \in DOMAIN outcomes : Resolved(t)

\* C6: at every moment the number of completion calls in flight is at most
\* the concurrency argument.
C6_InFlightBounded == Cardinality(InFlight) <= concurrency

\* The gate is full and holds a task back.
C6_Witness ==
  /\ Cardinality(InFlight) = concurrency
  /\ \E t \in DOMAIN tasks : tasks[t].st = "waiting"

\* C7: summarize_jobs never raises, and once a completion call has failed
\* (error, timeout or empty text) every submitted record's call is still
\* issued and resolved.
C7_FailureIsSwallowed ==
  /\ [](spc # "raised")
  /\ (AnyCallFailed ~> AllCallsResolved)

\* With one slot, a call has timed out and a sibling's call is in flight
\* after it.
C7_Witness ==
  /\ concurrency = 1
  /\ \E u \in DOMAIN tasks : outcomes[u] = "timeout"
  /\ \E t \in DOMAIN tasks : tasks[t].st = "inflight"

\* C8: when summarize_jobs has returned, no task is pending, waiting or in
\* flight; and, every issued call ending, summarize_jobs does return.
C8_ReturnsAfterAllResolved ==
  /\ [](spc = "returned" => \A t \in DOMAIN tasks : tasks[t].st = "done")
  /\ <>(spc = "returned")

\* summarize_jobs has returned from two calls, one of them failed.
C8_Witness ==
  /\ spc = "returned"
  /\ Len(tasks) >= 2
  /\ \E t \in DOMAIN tasks : outcomes[t] = "error"
  /\ \E t \in DOMAIN tasks : outcomes[t] = "text"

\* The semaphore exists: summarize_jobs is past ai.py:68.
SemMade == spc \in {"loop", "gather"} \/ (spc = "returned" /\ api_key)

\* C9: free slots plus calls in flight is the configured concurrency at every
\* moment (so every ended call, failed or not, has given its slot back), and
\* all slots are free when summarize_jobs has returned.
C9_GateNeverLeaks ==
  SemMade =>
    /\ sem >= 0
    /\ sem + Cardinality(InFlight) = concurrency
    /\ spc = "returned" => sem = concurrency

\* A call failed while its sibling is in flight, and its slot is free again.
C9_Witness ==
  /\ concurrency = 2
  /\ \E t \in DOMAIN tasks : outcomes[t] = "error" /\ tasks[t].st = "done"
  /\ Cardinality(InFlight) = 1
  /\ sem = 1

----------------------------------------------------------------------------
(* connectors/sheets.py 38-118: the worksheet and upsert_rows *)

\* A cell holds a str, the empty cell the empty str.
EmptyCell == "S:"

\* The cell a header name is written as.
HeaderCell(h) == "S:" \o h

Max(a, b) == IF a >= b THEN a ELSE b
Min(a, b) == IF a <= b THEN a ELSE b

RECURSIVE TrimRow(_)
TrimRow(row) ==
  IF row # <<>> /\ row[Len(row)] = EmptyCell
    THEN TrimRow(SubSeq(row, 1, Len(row) - 1))
    ELSE row

CellAt(sheet, r, c) ==
  IF r \in DOMAIN sheet /\ c \in DOMAIN sheet[r] THEN sheet[r][c] ELSE EmptyCell

\* ws.row_values(r): the row without its trailing empty cells.
row_values(sheet, r) == IF r \in DOMAIN sheet THEN TrimRow(sheet[r]) ELSE <<>>

\* ws.col_values(c): the column down to its last filled cell.
col_values(sheet, c) ==
  LET filled == {r \in DOMAIN sheet : CellAt(sheet, r, c) # EmptyCell}
      last == IF filled = {} THEN 0 ELSE CHOOSE m \in filled : \A n \in filled : n <= m
  IN [r \in 1..last |-> CellAt(sheet, r, c)]

\* What a cell shows once a scalar was entered in it (USER_ENTERED).
CellText(v) == IF v = PyNone THEN EmptyCell ELSE PyStr(v)

\* A range write of vals on row r from column A: a null either leaves the
\* cell (null_skipped) or clears it; cells right of the range are left.
WriteRange(sheet, r, vals, skip) ==
  LET old == IF r \in DOMAIN sheet THEN sheet[r] ELSE <<>>
      new == [c \in 1..Max(Len(old), Len(vals)) |->
                IF c > Len(vals) THEN old[c]
                ELSE IF vals[c] = PyNone
                  THEN (IF skip /\ c <= Len(old) THEN old[c] ELSE EmptyCell)
                  ELSE CellText(vals[c])]
  IN [n \in 1..Max(Len(sheet), r) |->
        IF n = r THEN TrimRow(new) ELSE IF n \in DOMAIN sheet THEN sheet[n] ELSE <<>>]

\* ws.batch_update of a chunk of (row, vals), each range written in turn.
RECURSIVE BatchUpdate(_, _, _)
BatchUpdate(sheet, chunk, skip) ==
  IF chunk = <<>> THEN sheet
  ELSE BatchUpdate(WriteRange(sheet, chunk[1][1], chunk[1][2], skip), Tail(chunk), skip)

\* An append that writes on the last row instead of below it.
RECURSIVE AppendRowsOverLast(_, _)
AppendRowsOverLast(sheet, chunk) ==
  IF chunk = <<>> THEN sheet
  ELSE AppendRowsOverLast(WriteRange(sheet, Len(sheet), chunk[1], FALSE), Tail(chunk))

\* ws.append_rows of a chunk of vals: new rows below the last row.
RECURSIVE AppendRows(_, _)
AppendRows(sheet, chunk) ==
  IF chunk = <<>> THEN sheet
  ELSE AppendRows(WriteRange(sheet, Len(sheet) + 1, chunk[1], FALSE), Tail(chunk))

\* ensure_headers, sheets.py:38-46
ensure_headers(sheet, hs) ==
  LET cur == row_values(sheet, 1)
      want == [i \in DOMAIN hs |-> HeaderCell(hs[i])]
  IN IF cur = want THEN sheet ELSE WriteRange(sheet, 1, want, FALSE)

\* read_index_by_key keeping the first row of a key instead of the last.
ReadIndexKeepFirst(sheet, key_col_name) ==
  LET hs == row_values(sheet, 1) IN
  IF \A i \in DOMAIN hs : hs[i] # HeaderCell(key_col_name)
    THEN <<>>
    ELSE LET first == CHOOSE i \in DOMAIN hs :
                        /\ hs[i] = HeaderCell(key_col_name)
                        /\ \A j \in DOMAIN hs : hs[j] = HeaderCell(key_col_name) => i <= j
             column == col_values(sheet, first)
             at(val) == {i \in DOMAIN column : i >= 2 /\ column[i] = val}
         IN [val \in {column[i] : i \in {n \in DOMAIN column : n >= 2 /\ PyTruthy(column[n])}}
               |-> CHOOSE m \in at(val) : \A n \in at(val) : m <= n]

\* read_index_by_key counting the rows from the header row.
ReadIndexFromHeaderRow(sheet, key_col_name) ==
  LET hs == row_values(sheet, 1) IN
  IF \A i \in DOMAIN hs : hs[i] # HeaderCell(key_col_name)
    THEN <<>>
    ELSE LET first == CHOOSE i \in DOMAIN hs :
                        /\ hs[i] = HeaderCell(key_col_name)
                        /\ \A j \in DOMAIN hs : hs[j] = HeaderCell(key_col_name) => i <= j
             column == col_values(sheet, first)
             at(val) == {i \in DOMAIN column : i >= 2 /\ column[i] = val}
         IN [val \in {column[i] : i \in {n \in DOMAIN column : n >= 2 /\ PyTruthy(column[n])}}
               |-> (CHOOSE m \in at(val) : \A n \in at(val) : n <= m) - 1]

\* read_index_by_key, sheets.py:49-59: the index as a function from the key
\* cells to row numbers; a later row of a key replaces an earlier one.
read_index_by_key(sheet, key_col_name) ==
  LET hs == row_values(sheet, 1) IN
  IF \A i \in DOMAIN hs : hs[i] # HeaderCell(key_col_name)
    THEN <<>>
    ELSE LET first == CHOOSE i \in DOMAIN hs :
                        /\ hs[i] = HeaderCell(key_col_name)
                        /\ \A j \in DOMAIN hs : hs[j] = HeaderCell(key_col_name) => i <= j
             column == col_values(sheet, first)
             at(val) == {i \in DOMAIN column : i >= 2 /\ column[i] = val}
         IN [val \in {column[i] : i \in {n \in DOMAIN column : n >= 2 /\ PyTruthy(column[n])}}
               |-> CHOOSE m \in at(val) : \A n \in at(val) : n <= m]

\* index.get(k): 0 stands for None.
IndexGet(index, k) == IF k \in DOMAIN index THEN index[k] ELSE 0

\* row.get(h)
RowGet(row, h) == IF h \in DOMAIN row THEN row[h] ELSE PyNone

\* The value projection of _normalize_row, sheets.py:66-71: a list is joined
\* with ", ", a dict is dumped as JSON, anything else passes.
NormalizeValue(v) ==
  CASE v = "L:[x,y]"  -> "S:x, y"
    [] v = "L:[]"     -> "S:"
    [] v = "D:{p:1}"  -> "S:{\"p\": 1}"
    [] OTHER          -> v

normalize_row(hs, row) == [i \in DOMAIN hs |-> NormalizeValue(RowGet(row, hs[i]))]

\* The loop looking a key up as it is, without str().
RECURSIVE QueueLoopRawKey(_, _, _, _, _, _)
QueueLoopRawKey(rs, i, index, hs, k, q) ==
  IF i > Len(rs) THEN q
  ELSE IF ~PyTruthy(RowGet(rs[i], k))
    THEN QueueLoopRawKey(rs, i + 1, index, hs, k, q)
  ELSE LET target_row == IndexGet(index, rs[i][k])
           vals == normalize_row(hs, rs[i])
       IN IF target_row # 0
            THEN QueueLoopRawKey(rs, i + 1, index, hs, k,
                                 [q EXCEPT !.updates = Append(@, <<target_row, vals>>)])
            ELSE QueueLoopRawKey(rs, i + 1, index, hs, k,
                                 [q EXCEPT !.appends = Append(@, vals)])

\* The loop of upsert_rows, sheets.py:92-100.
RECURSIVE QueueLoop(_, _, _, _, _, _)
QueueLoop(rs, i, index, hs, k, q) ==
  IF i > Len(rs) THEN q
  ELSE IF ~PyTruthy(RowGet(rs[i], k))
    THEN QueueLoop(rs, i + 1, index, hs, k, q)
  ELSE LET target_row == IndexGet(index, PyStr(rs[i][k]))
           vals == normalize_row(hs, rs[i])
       IN IF target_row # 0
            THEN QueueLoop(rs, i + 1, index, hs, k,
                           [q EXCEPT !.updates = Append(@, <<target_row, vals>>)])
            ELSE QueueLoop(rs, i + 1, index, hs, k,
                           [q EXCEPT !.appends = Append(@, vals)])

MaxRecords == 2
MaxCalls == 2

PushHeaders == <<"id", "val">>

\* Records to push: '1' and the int 1 (one key), a null value, two records of
\* a key no worksheet holds, a record without the key field, an empty key.
RecordSet ==
  { [id |-> "S:1", val |-> "S:x"],
    [id |-> "I:1", val |-> "L:[x,y]"],
    [id |-> "S:2", val |-> PyNone],
    [id |-> "S:3", val |-> "D:{p:1}"],
    [id |-> "S:3", val |-> "S:z"],
    [val |-> "S:x"],
    [id |-> "S:", val |-> "S:y"] }

\* Worksheets to push to: empty, header only, rows, a repeated key, an empty
\* key cell, the columns in another order, a column more, a column less.
InitialSheets ==
  { <<>>,
    << <<"S:id", "S:val">> >>,
    << <<"S:id", "S:val">>, <<"S:1", "S:y">> >>,
    << <<"S:id", "S:val">>, <<"S:1", "S:y">>, <<"S:2", "S:y">> >>,
    << <<"S:id", "S:val">>, <<"S:1", "S:x">>, <<"S:1", "S:y">> >>,
    << <<"S:id", "S:val">>, <<"S:", "S:x">>, <<"S:2">> >>,
    << <<"S:val", "S:id">>, <<"S:x", "S:1">> >>,
    << <<"S:id", "S:val", "S:note">>, <<"S:1", "S:x", "S:n">> >>,
    << <<"S:id">>, <<"S:2">> >> }

PushInit ==
  /\ ws \in InitialSheets
  /\ headers = PushHeaders
  /\ records \in SeqsUpTo(RecordSet, MaxRecords)
  /\ key \in {"id", "search_job_key"}
  /\ batch_size \in {1, 2}
  /\ null_skipped \in BOOLEAN
  /\ ppc = "ensure_headers"
  /\ updates = <<>>
  /\ appends = <<>>
  /\ upos = 0
  /\ apos = 0
  /\ callNo = 1
  /\ wsBefore = ws
  /\ sheetCalls = <<>>

\* sheets.py:86
EnsureHeaders ==
  /\ ppc = "ensure_headers"
  /\ ws' = ensure_headers(ws, headers)
  /\ ppc' = "build"
  /\ UNCHANGED <<headers, records, key, batch_size, null_skipped, updates, appends,
                 upos, apos, callNo, wsBefore, sheetCalls, notPush>>

\* sheets.py:87-100
BuildQueues ==
  /\ ppc = "build"
  /\ LET q == QueueLoop(records, 1, read_index_by_key(ws, key), headers, key,
                        [updates |-> <<>>, appends |-> <<>>])
     IN /\ updates' = q.updates
        /\ appends' = q.appends
        /\ ppc' = IF q.updates # <<>> THEN "flush_updates"
                  ELSE IF q.appends # <<>> THEN "flush_appends" ELSE "done"
  /\ UNCHANGED <<ws, headers, records, key, batch_size, null_skipped, upos, apos,
                 callNo, wsBefore, sheetCalls, notPush>>

\* sheets.py:104-114, one turn: one batch_update call.
FlushUpdates ==
  /\ ppc = "flush_updates"
  /\ LET chunk == SubSeq(updates, upos + 1, Min(upos + batch_size, Len(updates)))
     IN /\ ws' = BatchUpdate(ws, chunk, null_skipped)
        /\ upos' = upos + Len(chunk)
        /\ sheetCalls' = Append(sheetCalls, [call |-> "batch_update", rows |-> chunk])
        /\ ppc' = IF upos + Len(chunk) < Len(updates) THEN "flush_updates"
                  ELSE IF appends # <<>> THEN "flush_appends" ELSE "done"
  /\ UNCHANGED <<headers, records, key, batch_size, null_skipped, updates, appends,
                 apos, callNo, wsBefore, notPush>>

\* All queued appends handed to one append_rows call.
FlushAppendsInOneCall ==
  /\ ppc = "flush_appends"
  /\ LET chunk == SubSeq(appends, apos + 1, Len(appends))
     IN /\ ws' = AppendRows(ws, chunk)
        /\ apos' = apos + Len(chunk)
        /\ sheetCalls' = Append(sheetCalls, [call |-> "append_rows", rows |-> chunk])
        /\ ppc' = "done"
  /\ UNCHANGED <<headers, records, key, batch_size, null_skipped, updates, appends,
                 upos, callNo, wsBefore, notPush>>

\* sheets.py:117-118, one turn: one append_rows call.
FlushAppends ==
  /\ ppc = "flush_appends"
  /\ LET chunk == SubSeq(appends, apos + 1, Min(apos + batch_size, Len(appends)))
     IN /\ ws' = AppendRows(ws, chunk)
        /\ apos' = apos + Len(chunk)
        /\ sheetCalls' = Append(sheetCalls, [call |-> "append_rows", rows |-> chunk])
        /\ ppc' = IF apos + Len(chunk) < Len(appends) THEN "flush_appends" ELSE "done"
  /\ UNCHANGED <<headers, records, key, batch_size, null_skipped, updates, appends,
                 upos, callNo, wsBefore, notPush>>

\* A failing call that takes back what the calls before it had written.
WriteFailsRollsBack ==
  /\ ppc \in {"flush_updates", "flush_appends"}
  /\ ppc' = "raised"
  /\ ws' = ensure_headers(wsBefore, headers)
  /\ UNCHANGED <<headers, records, key, batch_size, null_skipped, updates,
                 appends, upos, apos, callNo, wsBefore, sheetCalls, notPush>>

\* A batch_update or append_rows call fails: the exception leaves upsert_rows.
WriteFails ==
  /\ ppc \in {"flush_updates", "flush_appends"}
  /\ ppc' = "raised"
  /\ UNCHANGED <<ws, headers, records, key, batch_size, null_skipped, updates,
                 appends, upos, apos, callNo, wsBefore, sheetCalls, notPush>>

\* upsert_rows is called again with the same arguments on the worksheet the
\* call before has left.
CallAgain ==
  /\ ppc = "done"
  /\ callNo < MaxCalls
  /\ callNo' = callNo + 1
  /\ wsBefore' = ws
  /\ sheetCalls' = <<>>
  /\ updates' = <<>>
  /\ appends' = <<>>
  /\ upos' = 0
  /\ apos' = 0
  /\ ppc' = "ensure_headers"
  /\ UNCHANGED <<ws, headers, records, key, batch_size, null_skipped, notPush>>

InitPush == DedupeIdle /\ EtlIdle /\ SumIdle /\ PullIdle /\ FnIdle /\ HideIdle /\ PushInit

NextPush ==
  \/ EnsureHeaders
  \/ BuildQueues
  \/ FlushUpdates
  \/ FlushAppends
  \/ WriteFails
  \/ CallAgain

SpecPush == InitPush /\ [][NextPush]_vars

----------------------------------------------------------------------------
(* Claims on upsert_rows *)

\* The records upsert_rows does not skip.
KeyedRecords == {i \in DOMAIN records : PyTruthy(RowGet(records[i], key))}

KeyIsHeader == \E i \in DOMAIN headers : headers[i] = key

----------------------------------------------------------------------------
(* cli.py 436-497 and connectors/supabase.py 161-224: sheets_pull on the
   Applications tab.  Of an application the id, the job, the final message,
   the status, the boosted flag and the connects spent are kept;
   submitted_at and proposal_url are handled as the final message is. *)

\* s.strip()
Strip(s) ==
  CASE s = "S: draft " -> "S:draft"
    [] s = "S:  "      -> "S:"
    [] s = "S: Y "     -> "S:Y"
    [] s = "S: 2 "     -> "S:2"
    [] OTHER           -> s

\* s.lower()
Lower(s) ==
  CASE s = "S:Submitted" -> "S:submitted"
    [] s = "S:Won"       -> "S:won"
    [] s = "S:TRUE"      -> "S:true"
    [] s = "S:Yes"       -> "S:yes"
    [] s = "S:Y"         -> "S:y"
    [] s = "S:No"        -> "S:no"
    [] s = "S:FALSE"     -> "S:false"
    [] OTHER             -> s

\* (r.get("status") or "").strip() fails on a cell that came back as a
\* non-zero number.
StatusRaises(cell) == cell \in {"I:1", "I:2", "I:3", "I:4", "I:5", "I:6"}

\* isinstance(value, bool), isinstance(value, (int, float)) and
\* isinstance(value, str) on the values of this model.
IsBool(v) == v \in {"B:True", "B:False"}
IsNumber(v) == v \in {"I:0", "I:1", "I:2", "I:3", "I:4", "I:5", "I:6", "F:0.0", "F:2.5"}
IsStr(v) == ~IsBool(v) /\ ~IsNumber(v) /\ v \notin {"None", "L:[]", "L:[x,y]", "D:{p:1}", "dict"}

\* _coerce_bool reading a str without trimming it.
CoerceBoolNoTrim(value) ==
  IF IsBool(value) THEN value
  ELSE IF IsNumber(value) THEN (IF PyTruthy(value) THEN "B:True" ELSE "B:False")
  ELSE IF IsStr(value)
    THEN LET v == Lower(value)
         IN IF v \in {"S:true", "S:yes", "S:y", "S:1"} THEN "B:True"
            ELSE IF v \in {"S:false", "S:no", "S:n", "S:0"} THEN "B:False"
            ELSE PyNone
  ELSE PyNone

\* _coerce_bool, cli.py:113-124
coerce_bool(value) ==
  IF IsBool(value) THEN value
  ELSE IF IsNumber(value) THEN (IF PyTruthy(value) THEN "B:True" ELSE "B:False")
  ELSE IF IsStr(value)
    THEN LET v == Lower(Strip(value))
         IN IF v \in {"S:true", "S:yes", "S:y", "S:1"} THEN "B:True"
            ELSE IF v \in {"S:false", "S:no", "S:n", "S:0"} THEN "B:False"
            ELSE PyNone
  ELSE PyNone

\* _coerce_int, cli.py:127-132: int(str(value).strip()), None when the text
\* is empty or is no integer.
coerce_int(value) ==
  LET s == Strip(PyStr(value))
  IN CASE s = "S:0" -> "I:0"
       [] s = "S:1" -> "I:1"
       [] s = "S:2" -> "I:2"
       [] s = "S:3" -> "I:3"
       [] s = "S:4" -> "I:4"
       [] OTHER     -> PyNone

\* cli.py:449
status_of(cell) ==
  LET s == Lower(Strip(PyOr(cell, "S:")))
  IN IF PyTruthy(s) THEN s ELSE PyNone

\* The loop looking for a job_id before it looks for an application_id.
RECURSIVE AppsLoopJobFirst(_, _, _)
AppsLoopJobFirst(rs, i, acc) ==
  IF i > Len(rs) THEN acc
  ELSE IF StatusRaises(rs[i].status) THEN acc
  ELSE IF PyTruthy(rs[i].job_id)
    THEN AppsLoopJobFirst(rs, i + 1,
                  [acc EXCEPT !.new = Append(@, [job_id |-> rs[i].job_id,
                                                 final_message |-> RowGet(rs[i], "final_message"),
                                                 status |-> status_of(rs[i].status),
                                                 connects_spent |-> coerce_int(rs[i].connects_spent),
                                                 boosted |-> coerce_bool(rs[i].boosted)])])
  ELSE IF PyTruthy(rs[i].application_id)
    THEN AppsLoopJobFirst(rs, i + 1,
                  [acc EXCEPT !.update = Append(@, [application_id |-> rs[i].application_id,
                                                    final_message |-> RowGet(rs[i], "final_message"),
                                                    status |-> status_of(rs[i].status),
                                                    connects_spent |-> coerce_int(rs[i].connects_spent),
                                                    boosted |-> coerce_bool(rs[i].boosted)])])
  ELSE AppsLoopJobFirst(rs, i + 1, acc)

\* The loop of cli.py:445-479; an exception in it leaves the loop and is
\* swallowed at 480-481, what was collected before stays collected.
RECURSIVE AppsLoop(_, _, _)
AppsLoop(rs, i, acc) ==
  IF i > Len(rs) THEN acc
  ELSE IF StatusRaises(rs[i].status) THEN acc
  ELSE IF PyTruthy(rs[i].application_id)
    THEN AppsLoop(rs, i + 1,
                  [acc EXCEPT !.update = Append(@, [application_id |-> rs[i].application_id,
                                                    final_message |-> RowGet(rs[i], "final_message"),
                                                    status |-> status_of(rs[i].status),
                                                    connects_spent |-> coerce_int(rs[i].connects_spent),
                                                    boosted |-> coerce_bool(rs[i].boosted)])])
  ELSE IF PyTruthy(rs[i].job_id)
    THEN AppsLoop(rs, i + 1,
                  [acc EXCEPT !.new = Append(@, [job_id |-> rs[i].job_id,
                                                 final_message |-> RowGet(rs[i], "final_message"),
                                                 status |-> status_of(rs[i].status),
                                                 connects_spent |-> coerce_int(rs[i].connects_spent),
                                                 boosted |-> coerce_bool(rs[i].boosted)])])
  ELSE AppsLoop(rs, i + 1, acc)

\* insert_applications, supabase.py:161-179: the store gives each new row
\* the next application_id.
RECURSIVE insert_applications(_, _)
insert_applications(table, rs) ==
  IF rs = <<>> THEN table
  ELSE IF ~PyTruthy(rs[1].job_id) THEN insert_applications(table, Tail(rs))
  ELSE insert_applications(
         Append(table, [application_id |-> "I:" \o ToString(Len(table) + 1),
                        job_id |-> PyStr(rs[1].job_id),
                        final_message |-> rs[1].final_message,
                        status |-> PyOr(rs[1].status, "S:draft"),
                        connects_spent |-> rs[1].connects_spent,
                        boosted |-> rs[1].boosted]),
         Tail(rs))

\* update_applications, supabase.py:182-201: every row with an id writes
\* each field it carries, None included, to the application of that id.
RECURSIVE update_applications(_, _)
update_applications(table, rs) ==
  IF rs = <<>> THEN table
  ELSE IF ~PyTruthy(rs[1].application_id) THEN update_applications(table, Tail(rs))
  ELSE update_applications(
         [i \in DOMAIN table |->
            IF table[i].application_id = rs[1].application_id
              THEN [table[i] EXCEPT !.final_message = rs[1].final_message,
                                    !.status = rs[1].status,
                                    !.connects_spent = rs[1].connects_spent,
                                    !.boosted = rs[1].boosted]
              ELSE table[i]],
         Tail(rs))

\* get_application_status_map, supabase.py:204-210
get_application_status_map(table) ==
  [k \in {PyStr(table[i].application_id) :
            i \in {n \in DOMAIN table : PyTruthy(table[n].application_id)}} |->
     LET a == table[CHOOSE m \in DOMAIN table :
                      /\ PyStr(table[m].application_id) = k
                      /\ \A n \in DOMAIN table :
                           PyStr(table[n].application_id) = k => n <= m]
     IN PyOr(a.status, "S:")]

\* before_status.get(k)
MapGet(map, k) == IF k \in DOMAIN map THEN map[k] ELSE PyNone

\* cli.py:492
new_status_of(u) == Lower(PyOr(u.status, "S:"))

\* The previous status compared as it is stored.
OldStatusAsStored(before, app_id) == PyOr(MapGet(before, app_id), "S:")

\* cli.py:493
old_status_of(before, app_id) == Lower(PyOr(MapGet(before, app_id), "S:"))

\* The loop of cli.py:490-495
RECURSIVE ChangedLoop(_, _, _)
ChangedLoop(us, before, changed) ==
  IF us = <<>> THEN changed
  ELSE LET app_id == PyStr(us[1].application_id)
           new_status == new_status_of(us[1])
           old_status == old_status_of(before, app_id)
       IN IF PyTruthy(new_status) /\ new_status # old_status
            THEN ChangedLoop(Tail(us), before, Append(changed, <<app_id, new_status>>))
            ELSE ChangedLoop(Tail(us), before, changed)

\* insert_status_history, supabase.py:213-224
RECURSIVE insert_status_history(_, _)
insert_status_history(table, rs) ==
  IF rs = <<>> THEN table
  ELSE IF ~PyTruthy(rs[1][1]) \/ ~PyTruthy(rs[1][2])
    THEN insert_status_history(table, Tail(rs))
  ELSE insert_status_history(
         Append(table, [application_id |-> PyStr(rs[1][1]), status |-> rs[1][2]]),
         Tail(rs))

MaxAppRows == 2

\* Rows of the Applications tab, most with the connects and boosted cells
\* empty: of application 1 a status in another case,
\* the stored one, one with blanks around, none, blanks only, a number; of
\* application 2; of an id the store may not hold; rows without an id, with
\* and without a job; rows with cells no coercion reads, and with cells it
\* reads.
AppRows ==
  { [application_id |-> "I:1", job_id |-> "S:j1", status |-> "S:Submitted",
      connects_spent |-> "S:", boosted |-> "S:"],
    [application_id |-> "I:1", job_id |-> "S:j1", status |-> "S:draft",
      connects_spent |-> "S:", boosted |-> "S:"],
    [application_id |-> "I:1", job_id |-> "S:",   status |-> "S: draft ",
      connects_spent |-> "S:", boosted |-> "S:"],
    [application_id |-> "I:1", job_id |-> "S:j1", status |-> "S:",
      connects_spent |-> "S:", boosted |-> "S:"],
    [application_id |-> "I:1", job_id |-> "S:j1", status |-> "S:  ",
      connects_spent |-> "S:", boosted |-> "S:"],
    [application_id |-> "I:1", job_id |-> "S:j1", status |-> "I:5",
      connects_spent |-> "S:", boosted |-> "S:"],
    [application_id |-> "I:2", job_id |-> "S:j1", status |-> "S:submitted",
      connects_spent |-> "S:", boosted |-> "S:"],
    [application_id |-> "I:2", job_id |-> "S:j1", status |-> "S:draft",
      connects_spent |-> "S:", boosted |-> "S:"],
    [application_id |-> "I:3", job_id |-> "S:",   status |-> "S:draft",
      connects_spent |-> "S:", boosted |-> "S:"],
    [application_id |-> "S:",  job_id |-> "S:j1", status |-> "S:Submitted",
      connects_spent |-> "S:", boosted |-> "S:"],
    [application_id |-> "S:",  job_id |-> "S:j1", status |-> "S:",
      connects_spent |-> "S:", boosted |-> "S:"],
    [application_id |-> "S:",  job_id |-> "S:",   status |-> "S:draft",
      connects_spent |-> "S:", boosted |-> "S:"],
    [application_id |-> "I:1", job_id |-> "S:j1", status |-> "S:draft",
      connects_spent |-> "S:abc", boosted |-> "S:maybe"],
    [application_id |-> "I:1", job_id |-> "S:j1", status |-> "S:draft",
      connects_spent |-> "I:2", boosted |-> "S:FALSE"],
    [application_id |-> "S:",  job_id |-> "S:j1", status |-> "S:draft",
      connects_spent |-> "I:2", boosted |-> "S:TRUE"] }

\* The applications the store holds before the pull.
InitialApplications ==
  { <<>>,
    << [application_id |-> "I:1", job_id |-> "S:j1", status |-> "S:draft",
      connects_spent |-> "I:4", boosted |-> "B:True", final_message |-> PyNone] >>,
    << [application_id |-> "I:1", job_id |-> "S:j1", status |-> "S:Submitted",
      connects_spent |-> "I:4", boosted |-> "B:True", final_message |-> PyNone] >>,
    << [application_id |-> "I:1", job_id |-> "S:j1", status |-> PyNone,
      connects_spent |-> "I:4", boosted |-> "B:True", final_message |-> PyNone] >>,
    << [application_id |-> "I:1", job_id |-> "S:j1", status |-> "S:draft",
      connects_spent |-> "I:4", boosted |-> "B:True", final_message |-> PyNone],
       [application_id |-> "I:2", job_id |-> "S:j1", status |-> "S:submitted",
      connects_spent |-> "I:4", boosted |-> "B:True", final_message |-> PyNone] >> }

\* The loop of cli.py:408-432; it only reads the row, nothing in it raises.
RECURSIVE NotesLoop(_, _, _)
NotesLoop(rs, i, acc) ==
  IF i > Len(rs) THEN acc
  ELSE IF PyTruthy(rs[i].note_id)
    THEN NotesLoop(rs, i + 1,
                   [acc EXCEPT !.update = Append(@, [note_id |-> rs[i].note_id,
                                                     note_text |-> rs[i].note_text,
                                                     author |-> rs[i].author])])
  ELSE IF PyTruthy(rs[i].job_id) /\ PyTruthy(rs[i].note_text)
    THEN NotesLoop(rs, i + 1,
                   [acc EXCEPT !.new = Append(@, [job_id |-> rs[i].job_id,
                                                  note_text |-> rs[i].note_text,
                                                  author |-> rs[i].author])])
  ELSE NotesLoop(rs, i + 1, acc)

\* insert_job_notes, supabase.py:131-147: the store gives each new row the
\* next note_id.
RECURSIVE insert_job_notes(_, _)
insert_job_notes(table, rs) ==
  IF rs = <<>> THEN table
  ELSE IF ~PyTruthy(rs[1].job_id) \/ ~PyTruthy(rs[1].note_text)
    THEN insert_job_notes(table, Tail(rs))
  ELSE insert_job_notes(
         Append(table, [note_id |-> "I:" \o ToString(Len(table) + 1),
                        job_id |-> PyStr(rs[1].job_id),
                        note_text |-> rs[1].note_text,
                        author |-> PyOr(rs[1].author, "S:user")]),
         Tail(rs))

\* update_job_notes, supabase.py:150-158: every row with an id writes the
\* fields it carries to the note of that id.
RECURSIVE update_job_notes(_, _)
update_job_notes(table, rs) ==
  IF rs = <<>> THEN table
  ELSE IF ~PyTruthy(rs[1].note_id) THEN update_job_notes(table, Tail(rs))
  ELSE update_job_notes(
         [i \in DOMAIN table |->
            IF table[i].note_id = rs[1].note_id
              THEN [table[i] EXCEPT !.note_text = rs[1].note_text,
                                    !.author = rs[1].author]
              ELSE table[i]],
         Tail(rs))

\* The JobNotes tabs pulled.  Their rows: an edited note, a note emptied, a
\* note of an id the store lacks, a new note, a row with a job and no text,
\* a row with a text and no job.
NoteTabs ==
  LET edited  == [note_id |-> "I:1", job_id |-> "S:j1", note_text |-> "S:edited", author |-> "S:me"]
      emptied == [note_id |-> "I:1", job_id |-> "S:",   note_text |-> "S:",       author |-> "S:"]
      unknown == [note_id |-> "I:3", job_id |-> "S:j1", note_text |-> "S:x",      author |-> "S:"]
      new     == [note_id |-> "S:",  job_id |-> "S:j1", note_text |-> "S:new",    author |-> "S:"]
      noText  == [note_id |-> "S:",  job_id |-> "S:j1", note_text |-> "S:",       author |-> "S:me"]
      noJob   == [note_id |-> "S:",  job_id |-> "S:",   note_text |-> "S:x",      author |-> "S:"]
  IN { <<>>,
       <<new>>,
       <<edited, new>>,
       <<new, new>>,
       <<noText, emptied>>,
       <<noJob, unknown>> }

\* The notes the store holds before the pull.
InitialJobNotes ==
  << [note_id |-> "I:1", job_id |-> "S:j1", note_text |-> "S:old", author |-> "S:user"] >>

PullInit ==
  /\ apps_records \in SeqsUpTo(AppRows, MaxAppRows)
  /\ applications \in InitialApplications
  /\ history = <<>>
  /\ apps_new = <<>>
  /\ apps_update = <<>>
  /\ before_status = <<>>
  /\ lpc = "notes_read"
  /\ appsAtUpdate = <<>>
  /\ notes_records \in NoteTabs
  /\ job_notes = InitialJobNotes
  /\ notes_new = <<>>
  /\ notes_update = <<>>
  /\ pullNo = 1
  /\ storeBefore = <<job_notes, applications, history>>

\* cli.py:404-434
ReadNotes ==
  /\ lpc = "notes_read"
  /\ LET acc == NotesLoop(notes_records, 1, [new |-> <<>>, update |-> <<>>])
     IN /\ notes_new' = acc.new
        /\ notes_update' = acc.update
  /\ lpc' = "notes_insert"
  /\ UNCHANGED <<notes_records, job_notes, apps_records, applications, history, apps_new,
                 apps_update, before_status, appsAtUpdate, pullNo, storeBefore, notPull>>

\* cli.py:435-436
InsertJobNotes ==
  /\ lpc = "notes_insert"
  /\ job_notes' = IF notes_new # <<>> THEN insert_job_notes(job_notes, notes_new)
                  ELSE job_notes
  /\ lpc' = "notes_update"
  /\ UNCHANGED <<notes_records, notes_new, notes_update, apps_records, applications,
                 history, apps_new, apps_update, before_status, appsAtUpdate, pullNo, storeBefore, notPull>>

\* cli.py:437-438
UpdateJobNotes ==
  /\ lpc = "notes_update"
  /\ job_notes' = IF notes_update # <<>> THEN update_job_notes(job_notes, notes_update)
                  ELSE job_notes
  /\ lpc' = "apps_read"
  /\ UNCHANGED <<notes_records, notes_new, notes_update, apps_records, applications,
                 history, apps_new, apps_update, before_status, appsAtUpdate, pullNo, storeBefore, notPull>>

\* A call of the store for the notes fails and the exception leaves
\* sheets_pull; update_job_notes, one request per row, has applied the rows
\* before.
NotesStoreCallFails ==
  /\ \/ lpc = "notes_insert" /\ notes_new # <<>> /\ UNCHANGED job_notes
     \/ /\ lpc = "notes_update"
        /\ \E n \in 0..(Len(notes_update) - 1) :
             job_notes' = update_job_notes(job_notes, SubSeq(notes_update, 1, n))
  /\ lpc' = "raised"
  /\ UNCHANGED <<notes_records, notes_new, notes_update, apps_records, applications,
                 history, apps_new, apps_update, before_status, appsAtUpdate, pullNo, storeBefore, notPull>>

\* cli.py:441-481
ReadApplications ==
  /\ lpc = "apps_read"
  /\ LET acc == AppsLoop(apps_records, 1, [new |-> <<>>, update |-> <<>>])
     IN /\ apps_new' = acc.new
        /\ apps_update' = acc.update
  /\ lpc' = "apps_insert"
  /\ UNCHANGED <<apps_records, applications, history, before_status, appsAtUpdate, notesVars, pullNo, storeBefore, notPull>>

\* cli.py:483-484
InsertApplications ==
  /\ lpc = "apps_insert"
  /\ applications' = IF apps_new # <<>> THEN insert_applications(applications, apps_new)
                     ELSE applications
  /\ lpc' = IF apps_update # <<>> THEN "apps_capture" ELSE "done"
  /\ UNCHANGED <<apps_records, history, apps_new, apps_update, before_status,
                 appsAtUpdate, notesVars, pullNo, storeBefore, notPull>>

\* cli.py:487
CaptureStatuses ==
  /\ lpc = "apps_capture"
  /\ before_status' = get_application_status_map(applications)
  /\ lpc' = "apps_update"
  /\ UNCHANGED <<apps_records, applications, history, apps_new, apps_update,
                 appsAtUpdate, notesVars, pullNo, storeBefore, notPull>>

\* cli.py:488
UpdateApplications ==
  /\ lpc = "apps_update"
  /\ appsAtUpdate' = applications
  /\ applications' = update_applications(applications, apps_update)
  /\ lpc' = "apps_history"
  /\ UNCHANGED <<apps_records, history, apps_new, apps_update, before_status, notesVars, pullNo, storeBefore, notPull>>

\* cli.py:489-497
InsertStatusHistory ==
  /\ lpc = "apps_history"
  /\ LET changed == ChangedLoop(apps_update, before_status, <<>>)
     IN history' = IF changed # <<>> THEN insert_status_history(history, changed)
                   ELSE history
  /\ lpc' = "done"
  /\ UNCHANGED <<apps_records, applications, apps_new, apps_update, before_status,
                 appsAtUpdate, notesVars, pullNo, storeBefore, notPull>>

\* A call of the store fails and the exception leaves sheets_pull;
\* update_applications, one request per row, has applied the rows before.
StoreCallFails ==
  /\ \/ lpc = "apps_insert" /\ apps_new # <<>> /\ UNCHANGED <<applications, appsAtUpdate>>
     \/ lpc = "apps_capture" /\ UNCHANGED <<applications, appsAtUpdate>>
     \/ /\ lpc = "apps_update"
        /\ appsAtUpdate' = applications
        /\ \E n \in 0..(Len(apps_update) - 1) :
             applications' = update_applications(applications, SubSeq(apps_update, 1, n))
     \/ /\ lpc = "apps_history"
        /\ ChangedLoop(apps_update, before_status, <<>>) # <<>>
        /\ UNCHANGED <<applications, appsAtUpdate>>
  /\ lpc' = "raised"
  /\ UNCHANGED <<apps_records, history, apps_new, apps_update, before_status, notesVars, pullNo, storeBefore, notPull>>

InitPull == DedupeIdle /\ EtlIdle /\ SumIdle /\ PushIdle /\ FnIdle /\ HideIdle /\ PullInit

NextPull ==
  \/ ReadNotes
  \/ InsertJobNotes
  \/ UpdateJobNotes
  \/ NotesStoreCallFails
  \/ ReadApplications
  \/ InsertApplications
  \/ CaptureStatuses
  \/ UpdateApplications
  \/ InsertStatusHistory
  \/ StoreCallFails

SpecPull == InitPull /\ [][NextPull]_vars

\* sheets_pull has returned and is run again, on the tabs as they were and
\* on the store as the first run has left it.
PullAgain ==
  /\ lpc = "done"
  /\ pullNo = 1
  /\ pullNo' = 2
  /\ storeBefore' = <<job_notes, applications, history>>
  /\ notes_new' = <<>>
  /\ notes_update' = <<>>
  /\ apps_new' = <<>>
  /\ apps_update' = <<>>
  /\ before_status' = <<>>
  /\ appsAtUpdate' = <<>>
  /\ lpc' = "notes_read"
  /\ UNCHANGED <<notes_records, job_notes, apps_records, applications, history, notPull>>

NextPullTwice == NextPull \/ PullAgain

SpecPullTwice == InitPull /\ [][NextPullTwice]_vars

----------------------------------------------------------------------------
(* Claims on sheets_pull *)

\* The status application k of the table holds, '' when it holds none or
\* no such application is there.
StoredStatus(table, k) ==
  IF \E i \in DOMAIN table : PyStr(table[i].application_id) = k
    THEN LET i == CHOOSE j \in DOMAIN table : PyStr(table[j].application_id) = k
         IN IF table[i].status = PyNone THEN "S:" ELSE table[i].status
    ELSE "S:"

\* The pulled status of an update row, trimmed and lower-cased as the pull
\* coerces it, '' when absent.
PulledStatus(u) == IF u.status = PyNone THEN "S:" ELSE u.status

\* The transitions due for the update rows against a table, in row order.
RECURSIVE TransitionsDue(_, _)
TransitionsDue(us, table) ==
  IF us = <<>> THEN <<>>
  ELSE LET k == PyStr(us[1].application_id)
           due == /\ PulledStatus(us[1]) # "S:"
                  /\ Lower(PulledStatus(us[1])) # Lower(StoredStatus(table, k))
       IN (IF due THEN << [application_id |-> k, status |-> Lower(PulledStatus(us[1]))] >>
           ELSE <<>>) \o TransitionsDue(Tail(us), table)

\* C10: the map of previous statuses sheets_pull compares with is the one of
\* the applications table as update_applications found it (captured before
\* the update); no status-history entry is written before the update; and
\* once the pull is through, the entries written are, in row order, one
\* (application_id, lower-cased status) for each update row whose pulled
\* status is non-empty and differs, lower-cased, from the lower-cased status
\* its application had before the update, and none for any other row.
C10_TransitionIffStatusChanged ==
  /\ lpc \in {"apps_read", "apps_insert", "apps_capture", "apps_update"} => history = <<>>
  /\ lpc \in {"apps_history", "done"} =>
       \A k \in {PyStr(apps_update[i].application_id) : i \in DOMAIN apps_update} :
         PyOr(MapGet(before_status, k), "S:") = StoredStatus(appsAtUpdate, k)
  /\ lpc = "done" => history = TransitionsDue(apps_update, appsAtUpdate)

\* A pull is through that has updated with two rows, one of them a change
\* of status and one of them the stored status in another case.
C10_Witness ==
  /\ lpc = "done"
  /\ Len(apps_update) = 2
  /\ Len(history) = 1
  /\ \E i \in DOMAIN apps_update :
       /\ PulledStatus(apps_update[i]) # "S:"
       /\ PulledStatus(apps_update[i]) #
            StoredStatus(appsAtUpdate, PyStr(apps_update[i].application_id))
       /\ PulledStatus(apps_update[i]) =
            Lower(StoredStatus(appsAtUpdate, PyStr(apps_update[i].application_id)))

\* The update rows of the application of id k.
UpdateRowsOf(k) == {j \in DOMAIN apps_update : apps_update[j].application_id = k}

\* C11 as the specification states it: when the status, connects_spent or
\* boosted cell of an Applications row is empty or not read by its coercion
\* (the coerced value is None), the update of the application of that row
\* leaves the stored value of that field as it was.
C11_AbsentCellNotWritten ==
  lpc \in {"apps_history", "done"} =>
    \A i \in DOMAIN appsAtUpdate :
      \A f \in {"status", "connects_spent", "boosted"} :
        ( /\ UpdateRowsOf(appsAtUpdate[i].application_id) # {}
          /\ \A j \in UpdateRowsOf(appsAtUpdate[i].application_id) :
               apps_update[j][f] = PyNone )
        => applications[i][f] = appsAtUpdate[i][f]

\* The rows of the tab up to the first one whose status cell makes the
\* parsing fail.
ParseFails == \E i \in DOMAIN apps_records : StatusRaises(apps_records[i].status)

\* C13 as the specification states it, on the Applications tab: when the
\* parsing of the tab has failed, no row of the tab is handed to the store,
\* neither as an insert nor as an update.
C13_FailedTabGivesNoRows ==
  (lpc # "apps_read" /\ ParseFails) => apps_new = <<>> /\ apps_update = <<>>

\* C12: when a batch_update or append_rows call of upsert_rows has failed,
\* upsert_rows has raised and stays so (it never completes), at least one
\* queued row is unwritten, appends were written only if all updates were,
\* the worksheet is the one after ensure_headers with exactly the update
\* chunks and append chunks written before the failure applied, and nothing
\* is written to it afterwards.
C12_FailurePropagatesNoRollback ==
  /\ [](ppc = "raised" =>
          /\ upos < Len(updates) \/ apos < Len(appends)
          /\ apos > 0 => upos = Len(updates)
          /\ ws = AppendRows(BatchUpdate(ensure_headers(wsBefore, headers),
                                         SubSeq(updates, 1, upos), null_skipped),
                             SubSeq(appends, 1, apos)))
  /\ [][ppc = "raised" => (ppc' = "raised" /\ ws' = ws /\ upos' = upos /\ apos' = apos)]_vars

\* An update chunk was written, and the call of the next one has failed.
C12_Witness ==
  /\ ppc = "raised"
  /\ upos = 1
  /\ Len(updates) = 2
  /\ ws # ensure_headers(wsBefore, headers)

\* C14: in run_all a processed flag is set only when every scrape request
\* of the run has been upserted, the jobs (one record for every job_id of
\* the payloads) and the links have been handed to their upserts, and none
\* of these calls has raised; when one of them has raised, no flag is set.
C14_ProcessedOnlyAfterWrites ==
  /\ processed # {} =>
       /\ failedCall \in {"", "update_scrape_processed"}
       /\ Len(scrape_requests) = Len(json_files)
       /\ \A i \in DOMAIN scrape_requests : scrape_requests[i] \in storedScrapes
       /\ jobs_buffer # <<>> => ("upsert_jobs" \in calls /\ handedJobs = jobs_buffer)
       /\ \A k \in PayloadKeys : JobKeyAt(handedJobs, k) # {}
       /\ search_results_buffer # <<>> =>
            ("upsert_search_results" \in calls /\ handedLinks = search_results_buffer)
  /\ failedCall \in {"upsert_scrape_request", "upsert_jobs", "upsert_search_results"}
       => processed = {}

\* A run is through that has written jobs and links and set two flags.
C14_Witness ==
  /\ epc = "done"
  /\ Cardinality(processed) = 2
  /\ handedJobs # <<>>
  /\ handedLinks # <<>>

\* C15 as the specification states it: flatten_record never raises, so
\* run_all is never left by an exception while it processes the files (the
\* only exceptions that leave it are those of a store call).
C15_FlattenNeverRaises ==
  epc = "raised" => failedCall # ""

----------------------------------------------------------------------------
(* cli.py 113-124 and processing.py 131-171: functions of their argument,
   called once on an argument of a set *)

BoolInputs ==
  { "B:True", "B:False", "I:0", "I:1", "I:2", "F:0.0", "F:2.5",
    "S:true", "S:TRUE", "S:Yes", "S: Y ", "S:y", "S:1",
    "S:false", "S:FALSE", "S:No", "S:n", "S:0",
    "S:maybe", "S:", "S:  ", "S:2", "None", "L:[]", "L:[x,y]", "D:{p:1}" }

\* A file name <digits>-<query>-page<page><ext>, held by its parts.
\* The digit runs: a timestamp, seventeen digits that are none (month 00),
\* and a run too short for the patterns.
Filenames ==
  [ digits : {"20250810112529289", "20250000000000000", "2025"},
    query  : {"data ai engineer", "a-page2", "a"},
    page   : {"", "3", "03", "2"},
    ext    : {".json", ".txt", ""} ]

\* \d{14,17} at the head of the name
DigitsMatch(f) == f.digits \in {"20250810112529289", "20250000000000000"}

\* processing.py:142, the strict pattern
StrictMatch(f) == DigitsMatch(f) /\ f.page # "" /\ f.ext = ".json"

\* processing.py:145, the relaxed pattern, tried when the strict one fails
RelaxedMatch(f) == DigitsMatch(f) /\ f.page = "" /\ f.ext \in {".json", ""}

\* datetime.strptime(search_id, "%Y%m%d%H%M%S%f") raises ValueError
StrptimeFails(digits) == digits = "20250000000000000"

\* str(int(page_str))
PageText(page_str) ==
  CASE page_str = "3"  -> "3"
    [] page_str = "03" -> "3"
    [] page_str = "2"  -> "2"
    [] OTHER           -> page_str

\* int(page_str) if page_str.isdigit() else None
PageInt(page_str) == IF page_str = "" THEN PyNone ELSE "I:" \o PageText(page_str)

\* Path(filepath).stem
StemOf(f) == f.digits \o "-" \o f.query \o "-page" \o f.page

\* processing.py:147-166 raises: query_ts is None at query_ts.isoformat()
ParseRaises(f) == (StrictMatch(f) \/ RelaxedMatch(f)) /\ StrptimeFails(f.digits)

\* A search_id that is the digit run alone.
ParseFilenameDigitsOnly(f) ==
  IF StrictMatch(f) \/ RelaxedMatch(f)
    THEN [ search_id       |-> "S:" \o f.digits,
           query_timestamp |-> "T:" \o f.digits,
           query           |-> "S:" \o f.query,
           page            |-> PageInt(f.page) ]
    ELSE [ search_id       |-> "S:" \o StemOf(f),
           query_timestamp |-> PyNone,
           query           |-> PyNone,
           page            |-> PyNone ]

\* parse_filename_metadata, processing.py:131-171, when it returns
parse_filename_metadata(f) ==
  IF StrictMatch(f) \/ RelaxedMatch(f)
    THEN [ search_id       |-> "S:" \o f.digits \o "-" \o f.query \o "-page" \o PageText(f.page),
           query_timestamp |-> "T:" \o f.digits,
           query           |-> "S:" \o f.query,
           page            |-> PageInt(f.page) ]
    ELSE [ search_id       |-> "S:" \o StemOf(f),
           query_timestamp |-> PyNone,
           query           |-> PyNone,
           page            |-> PyNone ]

FnInit ==
  /\ \/ fnName = "coerce_bool" /\ fnArg \in BoolInputs
     \/ fnName = "parse_filename_metadata" /\ fnArg \in Filenames
     \/ fnName = "process_json_file" /\ fnArg \in Filenames \X Filenames
  /\ fnRet = ""
  /\ fnpc = "call"

CallCoerceBool ==
  /\ fnpc = "call"
  /\ fnName = "coerce_bool"
  /\ fnRet' = coerce_bool(fnArg)
  /\ fnpc' = "returned"
  /\ UNCHANGED <<fnName, fnArg, notFn>>

CallParseFilenameMetadata ==
  /\ fnpc = "call"
  /\ fnName = "parse_filename_metadata"
  /\ IF ParseRaises(fnArg)
       THEN fnpc' = "raised" /\ fnRet' = fnRet
       ELSE fnpc' = "returned" /\ fnRet' = parse_filename_metadata(fnArg)
  /\ UNCHANGED <<fnName, fnArg, notFn>>

\* processing.py:182, called for one file and then for another: each call
\* of process_json_file parses the name of its file.
CallProcessTwoFiles ==
  /\ fnpc = "call"
  /\ fnName = "process_json_file"
  /\ IF ParseRaises(fnArg[1]) \/ ParseRaises(fnArg[2])
       THEN fnpc' = "raised" /\ fnRet' = fnRet
       ELSE /\ fnpc' = "returned"
            /\ fnRet' = <<parse_filename_metadata(fnArg[1]), parse_filename_metadata(fnArg[2])>>
  /\ UNCHANGED <<fnName, fnArg, notFn>>

InitFn == DedupeIdle /\ EtlIdle /\ SumIdle /\ PushIdle /\ PullIdle /\ HideIdle /\ FnInit

NextFn == CallCoerceBool \/ CallParseFilenameMetadata \/ CallProcessTwoFiles

SpecFn == InitFn /\ [][NextFn]_vars

----------------------------------------------------------------------------
(* Claims on the functions *)

\* C16 as the specification states it: parse_filename_metadata never
\* raises, and on a name that matches a pattern it returns the search_id,
\* the query and the page also when the digit run is no timestamp, with
\* query_timestamp unset.
C16_ParseFilenameNeverRaises ==
  fnName = "parse_filename_metadata" =>
    /\ fnpc # "raised"
    /\ (fnpc = "returned" /\ (StrictMatch(fnArg) \/ RelaxedMatch(fnArg))) =>
         /\ fnRet.query = "S:" \o fnArg.query
         /\ StrptimeFails(fnArg.digits) => fnRet.query_timestamp = PyNone

\* The strings the claim names, as they are before trimming and
\* lower-casing.
TrueTexts == {"S:true", "S:TRUE", "S:Yes", "S: Y ", "S:y", "S:1"}
FalseTexts == {"S:false", "S:FALSE", "S:No", "S:n", "S:0"}

\* C17: _coerce_bool never raises; it returns a native boolean as it is,
\* False for the numbers 0 and 0.0 and True for any other number, True for a
\* string that trimmed and lower-cased is true, yes, y or 1, False for one
\* that is false, no, n or 0, and None for every other value.
C17_CoerceBoolTable ==
  fnName = "coerce_bool" =>
    /\ fnpc # "raised"
    /\ fnpc = "returned" =>
         fnRet = ( IF fnArg \in {"B:True", "B:False"} THEN fnArg
                   ELSE IF fnArg \in {"I:0", "F:0.0"} THEN "B:False"
                   ELSE IF fnArg \in {"I:1", "I:2", "F:2.5"} THEN "B:True"
                   ELSE IF fnArg \in TrueTexts THEN "B:True"
                   ELSE IF fnArg \in FalseTexts THEN "B:False"
                   ELSE PyNone )

\* _coerce_bool has returned True for ' Y '.
C17_Witness ==
  /\ fnName = "coerce_bool"
  /\ fnpc = "returned"
  /\ fnArg = "S: Y "
  /\ fnRet = "B:True"

----------------------------------------------------------------------------
(* cli.py 311-351: sheets_push on the Jobs tab, pushed twice, an
   application ending in between.  Of a job the id and the title are kept. *)

\* supabase.py:56
TERMINAL_APPLICATION_STATUSES ==
  {"S:rejected", "S:lost", "S:withdrawn", "S:accepted", "S:hired", "S:won"}

\* cli.py:345-347
job_ids_to_hide(apps_rows) ==
  {PyStr(apps_rows[i].job_id) :
     i \in {n \in DOMAIN apps_rows :
              Lower(PyOr(apps_rows[n].status, "S:")) \in TERMINAL_APPLICATION_STATUSES}}

\* cli.py:343-348
jobs_rows_to_push(jobs_rows, apps_rows, hide) ==
  IF hide /\ apps_rows # <<>>
    THEN SelectSeq(jobs_rows, LAMBDA j : PyStr(j.job_id) \notin job_ids_to_hide(apps_rows))
    ELSE jobs_rows

HideInit ==
  /\ hide_terminal \in BOOLEAN
  /\ jobsTable = << [job_id |-> "S:j1", title |-> "S:t1"],
                    [job_id |-> "S:j2", title |-> "S:t2"] >>
  /\ applications \in InitialApplications
  /\ ws \in {<<>>, << <<"S:job_id", "S:title">> >>}
  /\ headers = <<"job_id", "title">>
  /\ records = <<>>
  /\ key = "job_id"
  /\ batch_size \in {1, 2}
  /\ null_skipped \in BOOLEAN
  /\ ppc = "sheets_push"
  /\ updates = <<>>
  /\ appends = <<>>
  /\ upos = 0
  /\ apos = 0
  /\ callNo = 1
  /\ wsBefore = ws
  /\ sheetCalls = <<>>
  /\ apps_records = <<>>
  /\ history = <<>>
  /\ apps_new = <<>>
  /\ apps_update = <<>>
  /\ before_status = <<>>
  /\ lpc = "idle"
  /\ appsAtUpdate = <<>>
  /\ notes_records = <<>>
  /\ job_notes = <<>>
  /\ notes_new = <<>>
  /\ notes_update = <<>>
  /\ pullNo = 0
  /\ storeBefore = <<>>

\* cli.py:331-351: the rows are fetched and filtered, and upsert_rows is
\* called on the Jobs worksheet.
SheetsPushJobs ==
  /\ ppc = "sheets_push"
  /\ records' = jobs_rows_to_push(jobsTable, applications, hide_terminal)
  /\ wsBefore' = ws
  /\ sheetCalls' = <<>>
  /\ ppc' = "ensure_headers"
  /\ UNCHANGED <<ws, headers, key, batch_size, null_skipped, updates, appends,
                 upos, apos, callNo, notPush>>

\* Between two pushes the status of an application is set in the store.
ApplicationEnds ==
  /\ ppc = "done"
  /\ callNo < MaxCalls
  /\ \E i \in DOMAIN applications : \E st \in {"S:rejected", "S:Won", "S:draft"} :
       applications' = [applications EXCEPT ![i].status = st]
  /\ callNo' = callNo + 1
  /\ updates' = <<>>
  /\ appends' = <<>>
  /\ upos' = 0
  /\ apos' = 0
  /\ ppc' = "sheets_push"
  /\ UNCHANGED <<ws, headers, records, key, batch_size, null_skipped, wsBefore,
                 sheetCalls, apps_records, history, apps_new, apps_update, before_status, lpc,
                 appsAtUpdate, notesVars, pullNo, storeBefore, hideVars, dedupeVars, etlVars, sumVars, fnVars>>

InitHide == DedupeIdle /\ EtlIdle /\ SumIdle /\ FnIdle /\ HideInit

NextHide ==
  \/ SheetsPushJobs
  \/ EnsureHeaders
  \/ BuildQueues
  \/ FlushUpdates
  \/ FlushAppends
  \/ ApplicationEnds

SpecHide == InitHide /\ [][NextHide]_vars

----------------------------------------------------------------------------
(* Claims on sheets_push *)

\* C18 as the specification states it: when a push with hide_terminal has
\* completed, no data row of the Jobs worksheet carries the job_id of a job
\* that has an application in a terminal status.
C18_TerminalJobsNotInTab ==
  (ppc = "done" /\ hide_terminal) =>
    \A r \in DOMAIN ws :
      r >= 2 => CellAt(ws, r, 1) \notin job_ids_to_hide(applications)

----------------------------------------------------------------------------
(* Further claims on summarize_jobs *)

\* C19: without an API key summarize_jobs creates no task and issues no
\* call, takes no semaphore, changes no record, never raises, and returns.
C19_NoKeyIsNoOp ==
  /\ [](~api_key => (tasks = <<>> /\ sem = 0 /\ spc \in {"start", "returned"}))
  /\ [][~api_key => jobs' = jobs]_vars
  /\ (~api_key ~> spc = "returned")

\* Without a key summarize_jobs has returned, on a list whose first record
\* lacks a summary and has a description, with a limit that admits it.
C19_Witness ==
  /\ ~api_key
  /\ spc = "returned"
  /\ limit >= 1
  /\ jobs # <<>>
  /\ jobs[1].description_summary = PyNone
  /\ jobs[1].description = "S:d"

\* A record that has no non-empty description_summary and has a non-empty
\* description.
LacksSummaryHasText(job) ==
  /\ job.description_summary \in {PyNone, "S:"}
  /\ job.description \notin {PyNone, "S:"}

\* The positions of the first limit such records of jobs.
FirstQualifying ==
  LET q == {i \in DOMAIN jobs : LacksSummaryHasText(jobs[i])}
  IN {i \in q : Cardinality({j \in q : j < i}) < limit}

\* No task has run yet: the records are as summarize_jobs was given them.
NoTaskRan == \A t \in DOMAIN tasks : tasks[t].st = "pending"

\* C20: the tasks are created in input order, each for a record that
\* lacks a summary and has a description, never more than limit of them;
\* when the loop is over they are exactly the first min(limit, q) such
\* records, and no task is created or dropped afterwards.
C20_SubmitsFirstQualifying ==
  /\ [](\A t, u \in DOMAIN tasks : t < u => tasks[t].job < tasks[u].job)
  /\ []((api_key /\ NoTaskRan) =>
          /\ Len(tasks) <= limit
          /\ {tasks[t].job : t \in DOMAIN tasks} \subseteq FirstQualifying
          /\ spc \in {"gather", "returned"} =>
               {tasks[t].job : t \in DOMAIN tasks} = FirstQualifying)
  /\ [][spc # "loop" =>
          [t \in DOMAIN tasks' |-> tasks'[t].job] = [t \in DOMAIN tasks |-> tasks[t].job]]_vars

\* The loop is over with one task, for the second record: the first does
\* not qualify, and the third does but is past the limit.
C20_Witness ==
  /\ spc = "gather"
  /\ NoTaskRan
  /\ limit = 1
  /\ Len(tasks) = 1
  /\ tasks[1].job = 2
  /\ Len(jobs) = 3
  /\ ~LacksSummaryHasText(jobs[1])
  /\ LacksSummaryHasText(jobs[3])

\* The record of task t now, and as it was handed to summarize_jobs.
RecordOf(t) == jobs[tasks[t].job]
RecordBefore(t) == jobsAtCall[tasks[t].job]

SuccessOutcomes == {"text", "text_no_usage"}

\* All three summary fields of job are set, and nothing else of before changed.
FullyEnriched(job, before) ==
  /\ PyTruthy(job.description_summary)
  /\ job.description_summary_model = AiModel
  /\ job.description_summary_tokens \in {"I:0", "I:7"}
  /\ job.description = before.description

\* C21: in every reachable state a submitted record either has all three
\* summary fields set by a call that gave a text (tokens 0 when the call
\* reported no usage) or is exactly as it was handed in; a record whose call
\* failed, gave an empty text or timed out is as it was handed in.
C21_EnrichmentAllOrNothing ==
  \A t \in DOMAIN tasks :
    /\ \/ /\ outcomes[t] \in SuccessOutcomes
          /\ FullyEnriched(RecordOf(t), RecordBefore(t))
          /\ outcomes[t] = "text_no_usage" => RecordOf(t).description_summary_tokens = "I:0"
       \/ RecordOf(t) = RecordBefore(t)
    /\ outcomes[t] \in FailedOutcomes => RecordOf(t) = RecordBefore(t)

\* A call without usage has enriched its record with tokens 0, and a timed-out
\* call has left a record with stale model fields as it was.
C21_Witness ==
  /\ \E t \in DOMAIN tasks :
       /\ outcomes[t] = "text_no_usage"
       /\ RecordOf(t).description_summary = "S:sum"
       /\ RecordOf(t).description_summary_tokens = "I:0"
  /\ \E t \in DOMAIN tasks :
       /\ outcomes[t] = "timeout"
       /\ RecordBefore(t).description_summary_model = "S:m0"
       /\ RecordOf(t) = RecordBefore(t)

\* What a call that ended as outcome makes of the record before.
EnrichedBy(before, outcome) ==
  CASE outcome = "text" ->
         [before EXCEPT !.description_summary = "S:sum",
                        !.description_summary_model = AiModel,
                        !.description_summary_tokens = "I:7"]
    [] outcome = "text_no_usage" ->
         [before EXCEPT !.description_summary = "S:sum",
                        !.description_summary_model = AiModel,
                        !.description_summary_tokens = "I:0"]
    [] OTHER -> before

\* The tasks created for record i.
TasksOf(i) == {t \in DOMAIN tasks : tasks[t].job = i}

\* C22: a step changes a record only if it is the completion of a task created
\* for that record, no record has two tasks, and at every moment each record
\* is what its own call's result makes of the record handed in (untouched
\* when it has no task or its call has not ended), whatever the order in which
\* the calls ended.
C22_TasksMutateDisjointRecords ==
  /\ [](\A i \in DOMAIN jobs :
         /\ Cardinality(TasksOf(i)) <= 1
         /\ \A t \in TasksOf(i) : jobs[i] = EnrichedBy(jobsAtCall[i], outcomes[t])
         /\ TasksOf(i) = {} => jobs[i] = jobsAtCall[i])
  /\ [][\A i \in DOMAIN jobs :
          jobs'[i] # jobs[i] =>
            \E t \in TasksOf(i) : tasks[t].st = "inflight" /\ tasks'[t].st = "done"]_vars

\* The second task's call has ended and enriched its record while the first
\* task's call is still in flight.
C22_Witness ==
  /\ Len(tasks) >= 2
  /\ tasks[1].st = "inflight"
  /\ tasks[2].st = "done"
  /\ outcomes[2] = "text"
  /\ RecordOf(2).description_summary = "S:sum"
  /\ RecordOf(1) = RecordBefore(1)

----------------------------------------------------------------------------
(* Further claims on the worksheet connector *)

\* The cells the headers argument is written as.
HeaderCells == [i \in DOMAIN headers |-> HeaderCell(headers[i])]

\* C23: when ensure_headers(ws, headers) has returned, the first row of the
\* worksheet is the headers, whatever the first row held before.
C23_FirstRowEqualsHeaders ==
  ppc = "build" => row_values(ws, 1) = HeaderCells

\* The positions of the records, in input order.
RecordOrder == [i \in DOMAIN records |-> i]

\* The cells a record is written as: one per header, in header order.
ValsOf(i) == [c \in DOMAIN headers |-> NormalizeValue(RowGet(records[i], headers[c]))]

\* The key of record i as the index holds keys.
KeyTextOf(i) == PyStr(RowGet(records[i], key))

\* C24: when upsert_rows builds its queues from the index of the worksheet,
\* the queued updates are, in input order, one per record whose key is
\* non-empty and in the index, each targeting the row the index gives for
\* str(key) with one cell per header in header order; the queued appends are,
\* in input order, one per record whose key is non-empty and not in the
\* index; a record with an empty or missing key is in neither queue.
C24_OneOperationPerKeyedRecord ==
  [][ppc = "build" =>
       LET index == read_index_by_key(ws, key)
           found(i) == i \in KeyedRecords /\ KeyTextOf(i) \in DOMAIN index
           fresh(i) == i \in KeyedRecords /\ KeyTextOf(i) \notin DOMAIN index
           hit  == SelectSeq(RecordOrder, found)
           miss == SelectSeq(RecordOrder, fresh)
       IN /\ updates' = [n \in DOMAIN hit |-> <<index[KeyTextOf(hit[n])], ValsOf(hit[n])>>]
          /\ appends' = [n \in DOMAIN miss |-> ValsOf(miss[n])]
          /\ Len(updates') + Len(appends') = Cardinality(KeyedRecords)]_vars

\* The queues are built from a record with the int key 1, found in the index
\* under '1', and a record of a key the index lacks.
C24_Witness ==
  /\ ppc = "flush_updates"
  /\ upos = 0
  /\ Len(updates) = 1
  /\ Len(appends) = 1
  /\ \E i \in DOMAIN records : RowGet(records[i], key) = "I:1"
  /\ updates[1][1] = 2

\* The rows below the header whose cell in column c is val.
RowsHolding(sheet, c, val) == {r \in DOMAIN sheet : r >= 2 /\ CellAt(sheet, r, c) = val}

\* The columns of the header row named name.
ColumnsNamed(sheet, name) == {c \in DOMAIN row_values(sheet, 1) : sheet[1][c] = HeaderCell(name)}

\* C25: for every worksheet upsert_rows meets, read_index_by_key is empty when
\* no header cell is the key name; otherwise its keys are exactly the
\* non-empty cells of the (first) key column below the header, and each key
\* maps to the last row, counted from 1 with the header as row 1, whose key
\* cell holds it.
C25_IndexMapsKeyToLastRow ==
  LET index == read_index_by_key(ws, key)
      cols == ColumnsNamed(ws, key)
  IN IF cols = {}
       THEN index = <<>>
       ELSE LET c == SetMin(cols) IN
            /\ DOMAIN index = {CellAt(ws, r, c) : r \in {n \in DOMAIN ws : n >= 2}} \ {EmptyCell}
            /\ \A val \in DOMAIN index :
                 /\ index[val] >= 2
                 /\ index[val] \in RowsHolding(ws, c, val)
                 /\ \A r \in RowsHolding(ws, c, val) : r <= index[val]

\* The index was read from a worksheet that holds a key in rows 2 and 3, and
\* the update queued for that key targets row 3.
C25_Witness ==
  /\ ppc = "flush_updates"
  /\ upos = 0
  /\ updates[1][1] = 3
  /\ ColumnsNamed(ws, key) # {}
  /\ \E val \in DOMAIN read_index_by_key(ws, key) :
       /\ Cardinality(RowsHolding(ws, SetMin(ColumnsNamed(ws, key)), val)) >= 2
       /\ read_index_by_key(ws, key)[val] = 3

RECURSIVE Concat(_)
Concat(ss) == IF ss = <<>> THEN <<>> ELSE ss[1] \o Concat(Tail(ss))

\* The rows of the calls of one kind, chunk after chunk.
RowsSent(kind) ==
  Concat([n \in DOMAIN SelectSeq(sheetCalls, LAMBDA c : c.call = kind) |->
            SelectSeq(sheetCalls, LAMBDA c : c.call = kind)[n].rows])

\* The records upsert_rows found no row for, in input order, as cells.
NotFoundVals ==
  LET index == read_index_by_key(ensure_headers(wsBefore, headers), key)
      fresh(i) == i \in KeyedRecords /\ KeyTextOf(i) \notin DOMAIN index
      miss == SelectSeq(RecordOrder, fresh)
  IN [n \in DOMAIN miss |-> ValsOf(miss[n])]

\* C26: every batch_update and append_rows call of upsert_rows carries
\* between 1 and batch_size rows, no batch_update call comes after an
\* append_rows call, and when upsert_rows has returned the rows of its
\* append_rows calls, chunk after chunk, are the records not found in the
\* index, in input order.
C26_BoundedBatchesInOrder ==
  /\ \A n \in DOMAIN sheetCalls :
       /\ Len(sheetCalls[n].rows) >= 1
       /\ Len(sheetCalls[n].rows) <= batch_size
       /\ sheetCalls[n].call = "append_rows" =>
            \A m \in DOMAIN sheetCalls : m > n => sheetCalls[m].call = "append_rows"
  /\ ppc = "done" => RowsSent("append_rows") = NotFoundVals

\* With batch_size 1, upsert_rows has returned after one batch_update call
\* and then one append_rows call.
C26_Witness ==
  /\ batch_size = 1
  /\ ppc = "done"
  /\ Len(sheetCalls) = 2
  /\ sheetCalls[1].call = "batch_update"
  /\ sheetCalls[2].call = "append_rows"

\* The column of the key in a worksheet whose first row is the headers.
KeyColumn == SetMin({c \in DOMAIN headers : headers[c] = key})

\* No two rows below the header hold the same non-empty key.
KeysUnique(sheet) ==
  \A r1, r2 \in {n \in DOMAIN sheet : n >= 2} :
    (r1 # r2 /\ CellAt(sheet, r1, KeyColumn) = CellAt(sheet, r2, KeyColumn))
      => CellAt(sheet, r1, KeyColumn) = EmptyCell

\* The worksheet is empty or its first row is the headers.
Aligned(sheet) == sheet = <<>> \/ row_values(sheet, 1) = HeaderCells

\* C30: if no two rows of the worksheet share a key when upsert_rows is
\* called, no two rows share a key when it has returned, whatever the records.
C30_KeysStayUnique ==
  (ppc = "done" /\ KeyIsHeader /\ Aligned(wsBefore) /\ KeysUnique(wsBefore))
    => KeysUnique(ws)

\* The index upsert_rows reads in this call, and the rows it gives for the
\* keys of the input records.
PassIndex == read_index_by_key(ensure_headers(wsBefore, headers), key)
InputKeyTexts == {KeyTextOf(i) : i \in KeyedRecords}
TargetRows == {IndexGet(PassIndex, k) : k \in InputKeyTexts} \ {0}

\* The data rows (below the header) the worksheet had when upsert_rows was
\* called.
DataRowsBefore == {r \in DOMAIN wsBefore : r >= 2}

\* C31: at every point of a call of upsert_rows, the worksheet has every row
\* it had at the call, at the same position; a data row the index does not
\* give for the key of an input record is cell for cell what it was, and so
\* is a data row whose key cell is not the key of an input record; rows
\* are only added below the last row the worksheet had.
C31_PushLeavesOtherRows ==
  /\ Len(ws) >= Len(wsBefore)
  /\ \A r \in DataRowsBefore :
       /\ r \notin TargetRows => ws[r] = wsBefore[r]
       /\ (KeyIsHeader /\ CellAt(wsBefore, r, KeyColumn) \notin InputKeyTexts)
            => ws[r] = wsBefore[r]

\* upsert_rows has returned after rewriting row 2 and appending a row, and
\* row 3, whose key no input record has, is what it was.
C31_Witness ==
  /\ ppc = "done"
  /\ Len(wsBefore) = 3
  /\ Len(ws) = 4
  /\ TargetRows = {2}
  /\ ws[2] # wsBefore[2]
  /\ ws[3] = wsBefore[3]
  /\ CellAt(wsBefore, 3, KeyColumn) \notin InputKeyTexts

----------------------------------------------------------------------------
(* Further claims on sheets_pull *)

\* sheets_pull is past the loop over the JobNotes rows, over the Applications
\* rows.
NotesWereRead == lpc # "notes_read"
AppsWereRead == lpc \in {"apps_insert", "apps_capture", "apps_update", "apps_history", "done"}

\* The ids of the rows that carry a secondary id, in tab order; the jobs of
\* the rows that carry none and have what identifies a new entity.
NoteIdsOf(rs) ==
  LET sel == SelectSeq(rs, LAMBDA r : PyTruthy(r.note_id))
  IN [n \in DOMAIN sel |-> sel[n].note_id]
NoteJobsOf(rs) ==
  LET sel == SelectSeq(rs, LAMBDA r : ~PyTruthy(r.note_id) /\ PyTruthy(r.job_id)
                                        /\ PyTruthy(r.note_text))
  IN [n \in DOMAIN sel |-> sel[n].job_id]
AppIdsOf(rs) ==
  LET sel == SelectSeq(rs, LAMBDA r : PyTruthy(r.application_id))
  IN [n \in DOMAIN sel |-> sel[n].application_id]
AppJobsOf(rs) ==
  LET sel == SelectSeq(rs, LAMBDA r : ~PyTruthy(r.application_id) /\ PyTruthy(r.job_id))
  IN [n \in DOMAIN sel |-> sel[n].job_id]

AppRowsRead ==
  LET bad == {i \in DOMAIN apps_records : StatusRaises(apps_records[i].status)}
  IN IF bad = {} THEN apps_records ELSE SubSeq(apps_records, 1, SetMin(bad) - 1)

Store == <<job_notes, applications, history>>

\* C32: when sheets_pull is run a second time on the same tabs and has
\* returned, the job_notes, applications and application_status_history
\* tables are what the first run had left: the second run has inserted no
\* note, no application and no status-history entry.
C32_SecondPullChangesNothing ==
  (pullNo = 2 /\ lpc = "done") => Store = storeBefore

\* The status-history entries the store holds for application k.
EntriesOf(k) == {i \in DOMAIN history : history[i].application_id = k}

\* C33: when one run of sheets_pull has returned, the status-history table
\* holds at most one entry of this run per application_id, also when the
\* Applications tab has several rows of one application_id.
C33_OneTransitionPerApplication ==
  (pullNo = 1 /\ lpc = "done") =>
    \A i \in DOMAIN history : Cardinality(EntriesOf(history[i].application_id)) <= 1

\* C34: when one run of sheets_pull has returned, every status-history entry
\* of the run is of an application the captured status map holds, that is of
\* an application the store held when the previous statuses were read.
C34_TransitionsOfKnownApplications ==
  (pullNo = 1 /\ lpc = "done") =>
    \A i \in DOMAIN history : history[i].application_id \in DOMAIN before_status

----------------------------------------------------------------------------
(* Further claims on parse_filename_metadata *)

\* The name matches one of the two patterns.
Matches(f) == StrictMatch(f) \/ RelaxedMatch(f)

\* Two names were parsed, both match and they share the digit run.
TwoMatchingParsed ==
  /\ fnName = "process_json_file"
  /\ fnpc = "returned"
  /\ Matches(fnArg[1]) /\ Matches(fnArg[2])
  /\ fnArg[1].digits = fnArg[2].digits

\* C28 as the specification states it: two matching names that share the
\* digit run and differ in the query or in the page as written get distinct
\* search_ids.
C28_DistinctSearchIds ==
  (TwoMatchingParsed /\ (fnArg[1].query # fnArg[2].query \/ fnArg[1].page # fnArg[2].page))
    => fnRet[1].search_id # fnRet[2].search_id

\* C28 as the code has it: two matching names that share the digit run get
\* the same search_id exactly when they have the same query and the same
\* page number, a page written with leading zeros being the number it reads
\* as.
C28_DistinctUnlessSamePageNumber ==
  TwoMatchingParsed =>
    (fnRet[1].search_id = fnRet[2].search_id
       <=> (fnArg[1].query = fnArg[2].query /\ fnRet[1].page = fnRet[2].page))

\* Names of the queries 'a-page2', without a page, and 'a', with page 2, were
\* parsed and got different search_ids.
C28_Witness ==
  /\ TwoMatchingParsed
  /\ fnArg[1].query = "a-page2" /\ fnArg[1].page = ""
  /\ fnArg[2].query = "a" /\ fnArg[2].page = "2"
  /\ fnRet[1].search_id # fnRet[2].search_id

----------------------------------------------------------------------------
(* Further claims on run_all *)

\* run_all is past the preload step.
Preloaded == epc \in {"summarize", "upsert_scrape_request", "upsert_jobs",
                      "upsert_search_results", "update_scrape_processed", "done"}

\* The non-empty summary the store holds for job k, None when it holds none.
StoredSummaryOf(k) ==
  LET hit == {n \in DOMAIN StoredJobs :
                StoredJobs[n].job_id = k /\ PyTruthy(StoredJobs[n].description_summary)}
  IN IF hit = {} THEN PyNone ELSE StoredJobs[SetMax(hit)].description_summary

\* C29: once run_all is past the preload step, every job of the buffer whose
\* row in the store has a non-empty description_summary carries that summary,
\* so that summarize_jobs skips it and it is not submitted again.
C29_StoredSummaryIsPreloaded ==
  Preloaded =>
    \A i \in DOMAIN jobs_buffer :
      StoredSummaryOf(jobs_buffer[i].job_id) # PyNone
        => job_summaries[i] = StoredSummaryOf(jobs_buffer[i].job_id)

----------------------------------------------------------------------------
(* cli.py 355 and 441-497: sheets_push of the applications to the
   Applications tab, then sheets_pull of that tab, nothing edited between *)

\* ws.get_all_records() of a worksheet whose first row holds the headers hs:
\* one dict per row below the header, the value of a header the cell of its
\* column as the worksheet shows it (a boolean as TRUE / FALSE, an empty cell
\* as ''), read as a number where it is the text of one.
get_all_records(sheet, hs) ==
  LET col(h) == CHOOSE c \in DOMAIN sheet[1] : sheet[1][c] = HeaderCell(h)
      shown(v) == CASE v = "B:True"  -> "S:TRUE"
                    [] v = "B:False" -> "S:FALSE"
                    [] OTHER         -> v
      numericise(v) == CASE v = "S:0" -> "I:0"
                         [] v = "S:1" -> "I:1"
                         [] v = "S:2" -> "I:2"
                         [] v = "S:3" -> "I:3"
                         [] v = "S:4" -> "I:4"
                         [] v = "S:5" -> "I:5"
                         [] v = "S:6" -> "I:6"
                         [] OTHER     -> v
  IN [r \in 1..(Len(sheet) - 1) |->
        [h \in SeqToSet(hs) |-> numericise(shown(CellAt(sheet, r + 1, col(h))))]]

\* The store holds no application, an application as insert_applications
\* makes it from a row with a job alone, applications with every field set
\* (one with the empty message a pull stores for an empty cell), or two of
\* them; the tab is empty or is what an earlier push of the same store wrote.
InitRound ==
  /\ DedupeIdle /\ EtlIdle /\ SumIdle /\ FnIdle /\ HideIdle
  /\ LET bare == [application_id |-> "I:1", job_id |-> "S:j1", final_message |-> PyNone,
                  status |-> "S:draft", connects_spent |-> PyNone, boosted |-> PyNone]
         full == [application_id |-> "I:2", job_id |-> "S:j1", final_message |-> "S:msg",
                  status |-> "S:submitted", connects_spent |-> "I:4", boosted |-> "B:True"]
         lost == [application_id |-> "I:3", job_id |-> "S:j1", final_message |-> "S:",
                  status |-> "S:won", connects_spent |-> "I:0", boosted |-> "B:False"]
     IN applications \in {<<>>, <<bare>>, <<full>>, <<lost>>, <<bare, full>>, <<full, lost>>}
  /\ headers = <<"application_id", "job_id", "final_message", "status",
                 "connects_spent", "boosted">>
  /\ records = applications
  /\ key = "application_id"
  /\ ws \in {<<>>,
              AppendRows(ensure_headers(<<>>, headers),
                         [i \in DOMAIN records |-> normalize_row(headers, records[i])])}
  /\ batch_size \in {1, 2}
  /\ null_skipped \in BOOLEAN
  /\ ppc = "ensure_headers"
  /\ updates = <<>>
  /\ appends = <<>>
  /\ upos = 0
  /\ apos = 0
  /\ callNo = 1
  /\ wsBefore = ws
  /\ sheetCalls = <<>>
  /\ apps_records = <<>>
  /\ history = <<>>
  /\ apps_new = <<>>
  /\ apps_update = <<>>
  /\ before_status = <<>>
  /\ lpc = "idle"
  /\ appsAtUpdate = <<>>
  /\ notes_records = <<>>
  /\ job_notes = <<>>
  /\ notes_new = <<>>
  /\ notes_update = <<>>
  /\ pullNo = 1
  /\ storeBefore = <<job_notes, applications, history>>

\* cli.py:443, after the push has returned: the rows of the Applications
\* tab are read.
PullAfterPush ==
  /\ ppc = "done"
  /\ lpc = "idle"
  /\ apps_records' = get_all_records(ws, headers)
  /\ lpc' = "apps_read"
  /\ UNCHANGED <<applications, history, apps_new, apps_update, before_status,
                 appsAtUpdate, notesVars, pullNo, storeBefore, notPull>>

NextRound ==
  \/ EnsureHeaders
  \/ BuildQueues
  \/ FlushUpdates
  \/ FlushAppends
  \/ PullAfterPush
  \/ ReadApplications
  \/ InsertApplications
  \/ CaptureStatuses
  \/ UpdateApplications
  \/ InsertStatusHistory

SpecRound == InitRound /\ [][NextRound]_vars

\* C35: when a sheets_pull that followed a sheets_push with no edit of the
\* tab between them has returned, it has inserted no status-history entry
\* and every application of the store has the fields it had before the push.
C35_RoundTripChangesNothing ==
  (ppc = "done" /\ lpc = "done") =>
    /\ history = <<>>
    /\ applications = storeBefore[2]

====
